---- MODULE Spec2Model ----
(***************************************************************************)
(* Model of the GitHub profile analyzer: the TTL cache (SimpleCache), the  *)
(* remote client (GitHubService) and the request handler (analyze_profile).*)
(*                                                                         *)
(* Python values are modelled as records [t, v]: t is the Python type and  *)
(* v a sequence (the characters of a str, the items of a list, the keys of *)
(* a dict).  Strings are sequences of one-character strings, except that a *)
(* fixed piece of text that cannot take part in a match is one element.    *)
(***************************************************************************)
EXTENDS Integers, Sequences, FiniteSets, TLC

\* ---------------------------------------------------------------- bounds
MaxClock == 4200

\* ------------------------------------------------------ program constants
default_ttl == 3600
events_ttl == 1800

\* ------------------------------------------------------------ py values
None == [t |-> "None", v |-> <<>>]
Str(s) == [t |-> "str", v |-> s]
List(s) == [t |-> "list", v |-> s]
Dict(s) == [t |-> "dict", v |-> s]

\* Python truth value of a str, list, dict or None.
Truthy(x) == x.t # "None" /\ Len(x.v) > 0

VARIABLES
    now,        \* datetime.now(timezone.utc), in seconds
    cache,      \* SimpleCache._cache: key -> [value, expires_at]
    last,       \* the cache operation applied last by the cache driver
    rate_limit_remaining,   \* GitHubService._rate_limit_remaining
    rate_limit_reset,       \* GitHubService._rate_limit_reset
    h,          \* the analyze_profile calls: locals and position of each
    ncalls,     \* number of analyze_profile calls started
    memo,       \* per operation and arguments: the result of the last
                \* completed fetch and the instant its entry expires
    pa          \* the method of ProfileAnalyzer being applied: its name,
                \* its arguments and, once it has returned, its result

vars == <<now, cache, last, rate_limit_remaining, rate_limit_reset, h, ncalls, memo, pa>>
svars == <<rate_limit_remaining, rate_limit_reset, h, ncalls, memo>>

\* No method of ProfileAnalyzer is being applied.
NoApply == [fn |-> "", done |-> FALSE]

\* ---------------------------------------------------------- SimpleCache
EmptyCache == [k \in {} |-> None]

\* Optional[int] argument: <<>> when omitted, <<n>> otherwise.
NoTtl == <<>>

\* `ttl or self.default_ttl`
ttl_or_default(ttl) ==
    IF ttl = NoTtl \/ ttl[1] = 0 THEN default_ttl ELSE ttl[1]

\* SimpleCache.get with `<=` for `<`: an entry is served at its expiry instant.
cache_get_le(c, key, t) ==
    IF key \in DOMAIN c
    THEN IF t <= c[key].expires_at
         THEN [value |-> c[key].value, store |-> c]
         ELSE [value |-> None,
               store |-> [k \in DOMAIN c \ {key} |-> c[k]]]
    ELSE [value |-> None, store |-> c]

\* SimpleCache.get: the value returned and the store it leaves.
cache_get(c, key, t) ==
    IF key \in DOMAIN c
    THEN IF t < c[key].expires_at
         THEN [value |-> c[key].value, store |-> c]
         ELSE [value |-> None,
               store |-> [k \in DOMAIN c \ {key} |-> c[k]]]
    ELSE [value |-> None, store |-> c]

\* SimpleCache.set
cache_set(c, key, value, ttl, t) ==
    [k \in DOMAIN c \cup {key} |->
        IF k = key
        THEN [value |-> value, expires_at |-> t + ttl_or_default(ttl)]
        ELSE c[k]]

\* SimpleCache.clear
cache_clear(c) == EmptyCache

\* SimpleCache.stats counting the expired entries as the total.
cache_stats_expired(c, t) ==
    [total_entries |-> Cardinality({k \in DOMAIN c : ~(t < c[k].expires_at)}),
     valid_entries |-> Cardinality({k \in DOMAIN c : t < c[k].expires_at})]

\* SimpleCache.stats
cache_stats(c, t) ==
    [total_entries |-> Cardinality(DOMAIN c),
     valid_entries |-> Cardinality({k \in DOMAIN c : t < c[k].expires_at})]

\* ------------------------------------------------------------- strings
\* str.lower() on the letters the model uses.
lower_char(ch) ==
    CASE ch = "U" -> "u"
      [] ch = "E" -> "e"
      [] ch = "R" -> "r"
      [] OTHER -> ch

lower(s) == [i \in 1..Len(s) |-> lower_char(s[i])]

DigitChar(d) ==
    CASE d = 0 -> "0" [] d = 1 -> "1" [] d = 2 -> "2" [] d = 3 -> "3"
      [] d = 4 -> "4" [] d = 5 -> "5" [] d = 6 -> "6" [] d = 7 -> "7"
      [] d = 8 -> "8" [] d = 9 -> "9"

DigitChars == {"0", "1", "2", "3", "4", "5", "6", "7", "8", "9"}

DigitValue(ch) == CHOOSE d \in 0..9 : DigitChar(d) = ch

\* str(n) of a non-negative int.
RECURSIVE NatDigits(_)
NatDigits(n) ==
    IF n < 10 THEN <<DigitChar(n)>>
    ELSE Append(NatDigits(n \div 10), DigitChar(n % 10))

\* str(n) of an int, as in an f-string.
Digits(n) == IF n < 0 THEN <<"-">> \o NatDigits(0 - n) ELSE NatDigits(n)

\* Whether int(s) accepts the header text s (unsigned decimal literal).
IsIntLiteral(s) == Len(s) > 0 /\ \A i \in 1..Len(s) : s[i] \in DigitChars

\* int(s) of an accepted literal.
RECURSIVE ParseInt(_)
ParseInt(s) ==
    IF Len(s) = 1 THEN DigitValue(s[1])
    ELSE 10 * ParseInt(SubSeq(s, 1, Len(s) - 1)) + DigitValue(s[Len(s)])

\* `sub in s` for strings.
Contains(s, sub) ==
    \E i \in 1..(Len(s) - Len(sub) + 1) : SubSeq(s, i, i + Len(sub) - 1) = sub

\* ---------------------------------------------------------- exceptions
NoExc == [type |-> "", msg |-> <<>>, cause |-> ""]

Exc(type, msg, cause) == [type |-> type, msg |-> msg, cause |-> cause]

\* isinstance(e, ValueError): json.JSONDecodeError derives from ValueError.
IsValueError(e) == e.type \in {"ValueError", "JSONDecodeError"}

\* ------------------------------------------------------ remote responses
\* A header absent from the response.
Absent == <<>>

\* The rate-limit headers of a response received at instant t:
\* (x-ratelimit-remaining, x-ratelimit-reset).
NoHeaders == <<Absent, Absent>>
Headers(t, d) == <<<<"5", "9">>, Digits(t + d)>>
BadRemaining == <<<<"x">>, Absent>>
BadReset == <<<<"5", "9">>, <<"x">>>>
BadRemainingWithReset(t) == <<<<"x">>, Digits(t + 60)>>

\* body: the parsed JSON value; json_ok: whether response.json() parses;
\* rate_limit_text: whether the body text mentions "rate limit".
Response(status, rate_limit_text, hp, json_ok, body) ==
    [kind |-> "response", status |-> status, rate_limit_text |-> rate_limit_text,
     remaining |-> hp[1], reset |-> hp[2], json_ok |-> json_ok, body |-> body]

\* client.request raised instead of returning a response.
TransportError ==
    [kind |-> "transport", status |-> 0, rate_limit_text |-> FALSE,
     remaining |-> Absent, reset |-> Absent, json_ok |-> FALSE, body |-> None]

\* The responses to a request, received at instant t, that every endpoint
\* may give; the bodies of the successful ones are drawn from bodies.
Responses(t, bodies) ==
    {Response(200, FALSE, Headers(t, 60), TRUE, b) : b \in bodies}
    \cup {Response(403, TRUE, Headers(t, 404), TRUE, None),
          Response(500, FALSE, Headers(t, 60), TRUE, None),
          Response(500, FALSE, BadRemaining, TRUE, None),
          TransportError}

\* The account does not exist.
NotFound(t) == Response(404, FALSE, Headers(t, 60), TRUE, None)

\* Further responses, given to the request of get_user.
MoreResponses(t) ==
    {Response(403, TRUE, Headers(t, 60), TRUE, None),
     Response(403, TRUE, NoHeaders, TRUE, None),
     Response(403, FALSE, Headers(t, 60), TRUE, None),
     NotFound(t),
     Response(200, FALSE, BadReset, TRUE, None),
     Response(500, FALSE, BadRemainingWithReset(t), TRUE, None),
     Response(200, FALSE, Headers(t, 60), FALSE, None)}

\* ------------------------------------------------- GitHubService._request
\* GitHubService._update_rate_limit: the fields it leaves and the error it
\* raises; rem and rst are Optional[int]: <<>> for None, <<n>> otherwise.
update_rate_limit(r, rem, rst) ==
    IF r.remaining # Absent /\ ~IsIntLiteral(r.remaining)
    THEN [exc |-> Exc("ValueError",
                      <<"invalid literal for int() with base 10: '">> \o r.remaining \o <<"'">>,
                      "bad_header"),
          remaining |-> rem, reset |-> rst]
    ELSE LET remaining == IF r.remaining = Absent THEN 0 ELSE ParseInt(r.remaining)
         IN  IF r.reset # Absent /\ ~IsIntLiteral(r.reset)
             THEN [exc |-> Exc("ValueError",
                               <<"invalid literal for int() with base 10: '">> \o r.reset \o <<"'">>,
                               "bad_header"),
                   remaining |-> <<remaining>>, reset |-> rst]
             ELSE LET reset_timestamp == IF r.reset = Absent THEN 0 ELSE ParseInt(r.reset)
                  IN  [exc |-> NoExc,
                       remaining |-> <<remaining>>,
                       reset |-> IF reset_timestamp # 0 THEN <<reset_timestamp>> ELSE <<>>]

\* datetime.isoformat() of the instant of the timestamp n: the model writes
\* the instant as its seconds since the epoch, followed by the UTC offset.
isoformat(n) == Digits(n) \o <<"+00:00">>

\* GitHubService.get_rate_limit_info, without has_token.
get_rate_limit_info(rem, rst) ==
    [remaining |-> rem,
     reset_at |-> IF rst # <<>> THEN Str(isoformat(rst[1])) ELSE None]

\* The Exception raised for a rate-limit rejection.
rate_limit_error(reset_time, t) ==
    IF reset_time # <<>>
    THEN Exc("Exception",
             <<"Rate limit exceeded. Resets in ">> \o Digits(reset_time[1] - t)
                \o <<" seconds. Add GITHUB_TOKEN to .env file for 5000 requests/hour.">>,
             "rate_limit")
    ELSE Exc("Exception",
             <<"Rate limit exceeded. Add GITHUB_TOKEN to .env file for 5000 requests/hour.">>,
             "rate_limit")

\* `response.status_code == 403 and "rate limit" in response.text.lower()`
is_rate_limit_rejection(r) ==
    r.kind = "response" /\ r.status = 403 /\ r.rate_limit_text

\* GitHubService._request on the arrival of r at instant t.
request(r, t, rem, rst) ==
    IF r.kind = "transport"
    THEN [exc |-> Exc("ConnectError", <<"All connection attempts failed">>, "transport"),
          remaining |-> rem, reset |-> rst]
    ELSE LET u == update_rate_limit(r, rem, rst)
         IN  IF u.exc # NoExc THEN u
             ELSE IF is_rate_limit_rejection(r)
                  THEN [u EXCEPT !.exc = rate_limit_error(u.reset, t)]
                  ELSE u

\* httpx.Response.raise_for_status / the message of httpx.HTTPStatusError.
http_status_error(r, url, cause) ==
    Exc("HTTPStatusError",
        <<"Error '">> \o Digits(r.status) \o <<" ' for url '">> \o url
            \o <<"' For more information check: https://developer.mozilla.org/en-US/docs/Web/HTTP/Status/">>
            \o Digits(r.status),
        cause)

\* response.json() on a body that is not JSON.
json_error == Exc("JSONDecodeError", <<"Expecting value: line 1 column 1 (char 0)">>, "bad_body")

\* A key made of the operation name alone.
make_key_op_only(args) == <<args[1]>>

\* SimpleCache._make_key: the digest of the argument list; distinct
\* argument lists are taken to have distinct digests.
make_key(args) == args

\* ------------------------------------------------------ GitHubService
BASE_URL == <<"https://api.github.com">>

HandleChars == {"u", "U", "e", "E", "x", "r", "R", "0", "1", "2", "3", "4", "-"}

\* str.strip() for the blank the model uses.
RECURSIVE lstrip(_)
lstrip(s) == IF s # <<>> /\ Head(s) = " " THEN lstrip(Tail(s)) ELSE s

RECURSIVE rstrip(_)
rstrip(s) ==
    IF s # <<>> /\ s[Len(s)] = " " THEN rstrip(SubSeq(s, 1, Len(s) - 1)) ELSE s

strip(s) == rstrip(lstrip(s))

\* The longest prefix of s made of [a-zA-Z0-9-].
RECURSIVE handle_prefix(_)
handle_prefix(s) ==
    IF s # <<>> /\ Head(s) \in HandleChars
    THEN <<Head(s)>> \o handle_prefix(Tail(s))
    ELSE <<>>

skip_one_of(s, toks) == IF s # <<>> /\ Head(s) \in toks THEN Tail(s) ELSE s

\* re.match(r"(?:https?://)?(?:www\.)?github\.com/([a-zA-Z0-9-]+)", s):
\* group(1), or <<>> when there is no match.  The literals of the pattern
\* are single elements of s.
url_match(s) ==
    LET a == skip_one_of(s, {"https://", "http://"})
        b == skip_one_of(a, {"www."})
    IN  IF b # <<>> /\ Head(b) = "github.com/" THEN handle_prefix(Tail(b)) ELSE <<>>

\* _extract_username testing for "@" before the URL pattern.
extract_username_email_first(query) ==
    LET q == strip(query)
    IN  IF \E i \in 1..Len(q) : q[i] = "@" THEN q
        ELSE IF url_match(q) # <<>> THEN url_match(q) ELSE q

\* GitHubService._extract_username
extract_username(query) ==
    LET q == strip(query)
    IN  IF url_match(q) # <<>> THEN url_match(q) ELSE q

has_at(s) == \E i \in 1..Len(s) : s[i] = "@"

\* The cache tests of the operations: `if cached is not None` and `if cached`.
search_hit_truthy(cached) == Truthy(cached)
search_hit(cached) == cached # None
user_hit(cached) == Truthy(cached)
repos_hit(cached) == Truthy(cached)
languages_hit(cached) == cached # None
events_hit(cached) == Truthy(cached)
orgs_hit(cached) == cached # None

\* The result of an operation on the arrival of a response: the error
\* raised (NoExc when it returns), the value returned and the store left.
\* more: a paginating operation goes on to request its next page.
Raise(e, store) == [exc |-> e, ret |-> None, store |-> store, more |-> FALSE]
Return(v, store) == [exc |-> NoExc, ret |-> v, store |-> store, more |-> FALSE]
NextPage(v, store) == [exc |-> NoExc, ret |-> v, store |-> store, more |-> TRUE]

\* GitHubService.search_user_by_email after the request; q is the outcome
\* of _request.  The body is the list of the logins of data["items"].
search_user_by_email(r, q, email, store, t) ==
    LET cache_key == make_key(<<"search_email", email>>)
    IN  IF q.exc # NoExc THEN Raise(q.exc, store)
        ELSE IF r.status = 200 /\ ~r.json_ok THEN Raise(json_error, store)
        ELSE IF r.status = 200 /\ Len(r.body.v) > 0
             THEN Return(Str(r.body.v[1]),
                         cache_set(store, cache_key, Str(r.body.v[1]), NoTtl, t))
             ELSE Return(None, cache_set(store, cache_key, Str(<<>>), NoTtl, t))

\* get_user without response.raise_for_status().
get_user_unchecked(r, q, username, store, t) ==
    LET cache_key == make_key(<<"user", lower(username)>>)
    IN  IF q.exc # NoExc THEN Raise(q.exc, store)
        ELSE IF ~r.json_ok THEN Raise(json_error, store)
        ELSE Return(r.body, cache_set(store, cache_key, r.body, NoTtl, t))

\* GitHubService.get_user after the request.
get_user(r, q, username, store, t) ==
    LET cache_key == make_key(<<"user", lower(username)>>)
        url == BASE_URL \o <<"/users/">> \o username
    IN  IF q.exc # NoExc THEN Raise(q.exc, store)
        ELSE IF r.status # 200
             THEN Raise(http_status_error(r, url,
                            IF r.status = 404 THEN "account_not_found" ELSE "status"), store)
        ELSE IF ~r.json_ok THEN Raise(json_error, store)
        ELSE Return(r.body, cache_set(store, cache_key, r.body, NoTtl, t))

max_repo_pages == 5
max_event_pages == 3
max_language_repos == 20

\* get_repos stopping after page 6 instead of page 5.
get_repos_six_pages(r, q, username, repos, page, store, t) ==
    LET cache_key == make_key(<<"repos", lower(username)>>)
        url == BASE_URL \o <<"/users/">> \o username
                 \o <<"/repos?per_page=100&page=">> \o Digits(page)
                 \o <<"&sort=updated&type=owner">>
        all == repos \o r.body.v
    IN  IF q.exc # NoExc THEN Raise(q.exc, store)
        ELSE IF r.status # 200
             THEN Raise(http_status_error(r, url,
                            IF r.status = 404 THEN "account_not_found" ELSE "status"), store)
        ELSE IF ~r.json_ok THEN Raise(json_error, store)
        ELSE IF Len(r.body.v) = 0
             THEN Return(List(repos), cache_set(store, cache_key, List(repos), NoTtl, t))
        ELSE IF page + 1 > max_repo_pages + 1
             THEN Return(List(all), cache_set(store, cache_key, List(all), NoTtl, t))
        ELSE NextPage(List(all), store)

\* get_repos requesting again after a response that is no success.
get_repos_retrying(r, q, username, repos, page, store, t) ==
    LET cache_key == make_key(<<"repos", lower(username)>>)
        all == repos \o r.body.v
    IN  IF q.exc # NoExc THEN Raise(q.exc, store)
        ELSE IF r.status # 200 THEN NextPage(List(repos), store)
        ELSE IF ~r.json_ok THEN Raise(json_error, store)
        ELSE IF Len(r.body.v) = 0
             THEN Return(List(repos), cache_set(store, cache_key, List(repos), NoTtl, t))
        ELSE IF page + 1 > max_repo_pages
             THEN Return(List(all), cache_set(store, cache_key, List(all), NoTtl, t))
        ELSE NextPage(List(all), store)

\* One turn of the loop of GitHubService.get_repos after the request of
\* page `page`; repos is the list built so far.  more: another page is
\* requested.
get_repos(r, q, username, repos, page, store, t) ==
    LET cache_key == make_key(<<"repos", lower(username)>>)
        url == BASE_URL \o <<"/users/">> \o username
                 \o <<"/repos?per_page=100&page=">> \o Digits(page)
                 \o <<"&sort=updated&type=owner">>
        all == repos \o r.body.v
    IN  IF q.exc # NoExc THEN Raise(q.exc, store)
        ELSE IF r.status # 200
             THEN Raise(http_status_error(r, url,
                            IF r.status = 404 THEN "account_not_found" ELSE "status"), store)
        ELSE IF ~r.json_ok THEN Raise(json_error, store)
        ELSE IF Len(r.body.v) = 0
             THEN Return(List(repos), cache_set(store, cache_key, List(repos), NoTtl, t))
        ELSE IF page + 1 > max_repo_pages
             THEN Return(List(all), cache_set(store, cache_key, List(all), NoTtl, t))
        ELSE NextPage(List(all), store)

\* GitHubService.get_repo_languages after the request.
get_repo_languages(r, q, username, repo_name, store, t) ==
    LET cache_key == make_key(<<"languages", lower(username), lower(repo_name)>>)
    IN  IF q.exc # NoExc THEN Raise(q.exc, store)
        ELSE IF r.status = 200
             THEN IF ~r.json_ok THEN Raise(json_error, store)
                  ELSE Return(r.body, cache_set(store, cache_key, r.body, NoTtl, t))
        ELSE Return(Dict(<<>>), cache_set(store, cache_key, Dict(<<>>), NoTtl, t))

\* get_events with response.raise_for_status() for the `break` on a
\* non-success response.
get_events_raise_for_status(r, q, username, events, page, store, t) ==
    LET cache_key == make_key(<<"events", lower(username)>>)
        url == BASE_URL \o <<"/users/">> \o username \o <<"/events/public">>
        all == events \o r.body.v
    IN  IF q.exc # NoExc THEN Raise(q.exc, store)
        ELSE IF r.status # 200 THEN Raise(http_status_error(r, url, "status"), store)
        ELSE IF ~r.json_ok THEN Raise(json_error, store)
        ELSE IF Len(r.body.v) = 0
             THEN Return(List(events),
                         cache_set(store, cache_key, List(events), <<events_ttl>>, t))
        ELSE IF page + 1 <= max_event_pages
             THEN NextPage(List(all), store)
        ELSE Return(List(all), cache_set(store, cache_key, List(all), <<events_ttl>>, t))

\* get_events with `while page <= 4`.
get_events_four_pages(r, q, username, events, page, store, t) ==
    LET cache_key == make_key(<<"events", lower(username)>>)
        all == events \o r.body.v
    IN  IF q.exc # NoExc THEN Raise(q.exc, store)
        ELSE IF r.status # 200
             THEN Return(List(events),
                         cache_set(store, cache_key, List(events), <<events_ttl>>, t))
        ELSE IF ~r.json_ok THEN Raise(json_error, store)
        ELSE IF Len(r.body.v) = 0
             THEN Return(List(events),
                         cache_set(store, cache_key, List(events), <<events_ttl>>, t))
        ELSE IF page + 1 <= max_event_pages + 1
             THEN NextPage(List(all), store)
        ELSE Return(List(all), cache_set(store, cache_key, List(all), <<events_ttl>>, t))

\* One turn of the loop of GitHubService.get_events after the request of
\* page `page`; events is the list built so far.
get_events(r, q, username, events, page, store, t) ==
    LET cache_key == make_key(<<"events", lower(username)>>)
        all == events \o r.body.v
    IN  IF q.exc # NoExc THEN Raise(q.exc, store)
        ELSE IF r.status # 200
             THEN Return(List(events),
                         cache_set(store, cache_key, List(events), <<events_ttl>>, t))
        ELSE IF ~r.json_ok THEN Raise(json_error, store)
        ELSE IF Len(r.body.v) = 0
             THEN Return(List(events),
                         cache_set(store, cache_key, List(events), <<events_ttl>>, t))
        ELSE IF page + 1 <= max_event_pages
             THEN NextPage(List(all), store)
        ELSE Return(List(all), cache_set(store, cache_key, List(all), <<events_ttl>>, t))

\* GitHubService.get_orgs after the request.
get_orgs_caching_rejection(r, q, username, store, t) ==
    LET cache_key == make_key(<<"orgs", lower(username)>>)
    IN  IF q.exc # NoExc
        THEN Raise(q.exc, cache_set(store, cache_key, List(<<>>), NoTtl, t))
        ELSE IF r.status = 200
             THEN IF ~r.json_ok THEN Raise(json_error, store)
                  ELSE Return(r.body, cache_set(store, cache_key, r.body, NoTtl, t))
        ELSE Return(List(<<>>), cache_set(store, cache_key, List(<<>>), NoTtl, t))

get_orgs(r, q, username, store, t) ==
    LET cache_key == make_key(<<"orgs", lower(username)>>)
    IN  IF q.exc # NoExc THEN Raise(q.exc, store)
        ELSE IF r.status = 200
             THEN IF ~r.json_ok THEN Raise(json_error, store)
                  ELSE Return(r.body, cache_set(store, cache_key, r.body, NoTtl, t))
        ELSE Return(List(<<>>), cache_set(store, cache_key, List(<<>>), NoTtl, t))

\* GitHubService.resolve_username once search_user_by_email returned found.
resolve_username(found, extracted) ==
    IF Truthy(found)
    THEN [exc |-> NoExc, ret |-> found.v]
    ELSE [exc |-> Exc("ValueError",
                      <<"No GitHub user found with email: ">> \o extracted,
                      "email_no_hit"),
          ret |-> <<>>]

\* The lookups of get_multiple_repo_languages started from the last name.
RECURSIVE start_lookups_reversed(_, _, _, _)
start_lookups_reversed(username, repo_names, store, t) ==
    IF repo_names = <<>> THEN [store |-> store, tasks |-> <<>>]
    ELSE LET name == repo_names[Len(repo_names)]
             g == cache_get(store, make_key(<<"languages", lower(username), lower(name)>>), t)
             rest == start_lookups_reversed(username, SubSeq(repo_names, 1, Len(repo_names) - 1),
                                            g.store, t)
             task == IF languages_hit(g.value)
                     THEN [name |-> name, state |-> "ok", ret |-> g.value, exc |-> NoExc]
                     ELSE [name |-> name, state |-> "inflight", ret |-> None, exc |-> NoExc]
         IN  [store |-> rest.store, tasks |-> <<task>> \o rest.tasks]

\* The start of the lookups of get_multiple_repo_languages: each task runs
\* get_repo_languages up to its request.  A task is a record [name, state,
\* ret, exc] with state "inflight", "ok" or "exc".
RECURSIVE start_lookups(_, _, _, _)
start_lookups(username, repo_names, store, t) ==
    IF repo_names = <<>> THEN [store |-> store, tasks |-> <<>>]
    ELSE LET name == Head(repo_names)
             g == cache_get(store, make_key(<<"languages", lower(username), lower(name)>>), t)
             rest == start_lookups(username, Tail(repo_names), g.store, t)
             task == IF languages_hit(g.value)
                     THEN [name |-> name, state |-> "ok", ret |-> g.value, exc |-> NoExc]
                     ELSE [name |-> name, state |-> "inflight", ret |-> None, exc |-> NoExc]
         IN  [store |-> rest.store, tasks |-> <<task>> \o rest.tasks]

\* The dict comprehension of get_multiple_repo_languages over the results
\* of asyncio.gather(*tasks, return_exceptions=True): `for name, langs in
\* results` unpacks every result, so an exception among them raises
\* TypeError.  The dict is the sequence of its items [name, langs].
get_multiple_repo_languages(tasks) ==
    LET failed == {i \in 1..Len(tasks) : tasks[i].state = "exc"}
    IN  IF failed # {}
        THEN LET first == CHOOSE i \in failed : \A j \in failed : i <= j
             IN  [exc |-> Exc("TypeError",
                              <<"cannot unpack non-iterable ", tasks[first].exc.type, " object">>,
                              "gather"),
                  ret |-> <<>>]
        ELSE [exc |-> NoExc,
              ret |-> [i \in 1..Len(tasks) |->
                          [name |-> tasks[i].name, langs |-> tasks[i].ret]]]

\* The except clauses of analyze_profile: the HTTP error raised for e.
analyze_profile_except(e, query) ==
    IF IsValueError(e)
    THEN [status |-> 404, detail |-> e.msg, cause |-> e.cause]
    ELSE IF Contains(e.msg, <<"4", "0", "4">>)
         THEN [status |-> 404, detail |-> <<"GitHub user not found: ">> \o query,
               cause |-> e.cause]
         ELSE [status |-> 500, detail |-> <<"Error analyzing profile: ">> \o e.msg,
               cause |-> e.cause]

\* ---------------------------------------------------------- environment
MaxCalls == 2
MaxRepos == 2
MaxEvents == 1

Handlers == {1}

Queries == {<<"u">>, <<"U">>, <<"e", "@", "x">>}

RepoName(p) == <<"r", DigitChar(p)>>

SearchBodies == {List(<<>>), List(<< <<"u">> >>)}
UserBodies == {Dict(<<"login">>)}
ReposBodies(page) ==
    {List(<<>>)} \cup (IF page <= MaxRepos THEN {List(<<RepoName(page)>>)} ELSE {})
LanguagesBodies == {Dict(<<"Python">>)}
EventsBodies(page) ==
    {List(<<>>)} \cup (IF page <= MaxEvents THEN {List(<<"PushEvent">>)} ELSE {})
OrgsBodies == {List(<<"o">>)}

\* ------------------------------------------------------- analyze_profile
NoOutcome == [status |-> 0, detail |-> <<>>, cause |-> ""]
NoCall == [op |-> "", src |-> "", success |-> FALSE, rate_limit |-> FALSE,
           headers_ok |-> TRUE, raised |-> FALSE, ret |-> None]

NewCall(query) ==
    [pc |-> "idle", query |-> query, extracted |-> <<>>, username |-> <<>>,
     user |-> None, repos |-> List(<<>>), page |-> 0, orgs |-> None,
     events |-> List(<<>>), tasks |-> <<>>, repo_languages |-> <<>>,
     outcome |-> NoOutcome, error |-> NoExc, nreq |-> 0, lastcall |-> NoCall,
     rate_limited |-> FALSE, evicted |-> {}]

headers_ok(r) ==
    /\ r.remaining = Absent \/ IsIntLiteral(r.remaining)
    /\ r.reset = Absent \/ IsIntLiteral(r.reset)

\* evicted (of a call): the keys whose expired entries the gets of the
\* operation in progress have deleted (SimpleCache.get, `del self._cache[key]`).

\* What the operation op did on the response r.
CallInfo(op, r, res) ==
    [op |-> op, src |-> r.kind, success |-> r.status = 200,
     rate_limit |-> is_rate_limit_rejection(r), headers_ok |-> headers_ok(r),
     raised |-> res.exc # NoExc, ret |-> res.ret]

\* What the operation op did on a cache hit.
HitInfo(op, value) ==
    [op |-> op, src |-> "cache", success |-> FALSE, rate_limit |-> FALSE,
     headers_ok |-> TRUE, raised |-> FALSE, ret |-> value]

memo_ttl(op) == IF op = "events" THEN events_ttl ELSE default_ttl

memo_put(m, id, ret, t) ==
    [k \in DOMAIN m \cup {id} |->
        IF k = id THEN [ret |-> ret, until |-> t + memo_ttl(id[1])] ELSE m[k]]

SetH(c, rec) == h' = [h EXCEPT ![c] = rec]

\* The call ends with the HTTP error the except clauses raise for e.
Failed(rec, e) ==
    [rec EXCEPT !.pc = "done", !.error = e,
                !.outcome = analyze_profile_except(e, rec.query)]

\* The effect of _request on the service's fields.
SetRateLimit(q) ==
    /\ rate_limit_remaining' = q.remaining
    /\ rate_limit_reset' = q.reset

\* rate_limited: _request raised its rate-limit error during the call.
Noted(rec, q, info) ==
    [rec EXCEPT !.lastcall = info,
                !.rate_limited = @ \/ q.exc.cause = "rate_limit"]

\* analyze_profile is called with the query.
Analyze(c, query) ==
    /\ h[c].pc = "idle"
    /\ ncalls < MaxCalls
    /\ ncalls' = ncalls + 1
    /\ LET extracted == extract_username(query)
       IN  SetH(c, [NewCall(query) EXCEPT
                      !.extracted = extracted,
                      !.username = IF has_at(extracted) THEN <<>> ELSE extracted,
                      !.pc = IF has_at(extracted) THEN "search" ELSE "user"])
    /\ UNCHANGED <<now, cache, last, rate_limit_remaining, rate_limit_reset, memo>>
    /\ UNCHANGED pa

\* resolve_username continues with what search_user_by_email returned.
Resolved(rec, found) ==
    LET res == resolve_username(found, rec.extracted)
    IN  IF res.exc # NoExc THEN Failed(rec, res.exc)
        ELSE [rec EXCEPT !.username = res.ret, !.pc = "user"]

\* search_user_by_email up to its request.
SearchCall(c) ==
    /\ h[c].pc = "search"
    /\ LET g == cache_get(cache, make_key(<<"search_email", h[c].extracted>>), now)
       IN  /\ cache' = g.store
           /\ IF search_hit(g.value)
              THEN SetH(c, Resolved([h[c] EXCEPT !.lastcall = HitInfo("search_email", g.value), !.evicted = {}],
                                    g.value))
              ELSE SetH(c, [h[c] EXCEPT !.pc = "search_wait", !.nreq = @ + 1,
                                        !.lastcall = NoCall,
                                        !.evicted = DOMAIN cache \ DOMAIN g.store])
    /\ UNCHANGED <<now, last, rate_limit_remaining, rate_limit_reset, ncalls, memo>>
    /\ UNCHANGED pa

\* search_user_by_email from the response on.
SearchResponse(c, r) ==
    /\ h[c].pc = "search_wait"
    /\ LET q == request(r, now, rate_limit_remaining, rate_limit_reset)
           res == search_user_by_email(r, q, h[c].extracted, cache, now)
           rec == Noted(h[c], q, CallInfo("search_email", r, res))
       IN  /\ SetRateLimit(q)
           /\ cache' = res.store
           /\ IF res.exc # NoExc
              THEN SetH(c, Failed(rec, res.exc)) /\ UNCHANGED memo
              ELSE /\ SetH(c, Resolved(rec, res.ret))
                   /\ memo' = memo_put(memo, <<"search_email", h[c].extracted>>, res.ret, now)
    /\ UNCHANGED <<now, last, ncalls>>
    /\ UNCHANGED pa

\* get_user up to its request.
UserCall(c) ==
    /\ h[c].pc = "user"
    /\ LET g == cache_get(cache, make_key(<<"user", lower(h[c].username)>>), now)
       IN  /\ cache' = g.store
           /\ IF user_hit(g.value)
              THEN SetH(c, [h[c] EXCEPT !.user = g.value, !.pc = "repos",
                                        !.lastcall = HitInfo("user", g.value), !.evicted = {}])
              ELSE SetH(c, [h[c] EXCEPT !.pc = "user_wait", !.nreq = @ + 1,
                                        !.lastcall = NoCall,
                                        !.evicted = DOMAIN cache \ DOMAIN g.store])
    /\ UNCHANGED <<now, last, rate_limit_remaining, rate_limit_reset, ncalls, memo>>
    /\ UNCHANGED pa

\* get_user from the response on.
UserResponse(c, r) ==
    /\ h[c].pc = "user_wait"
    /\ LET q == request(r, now, rate_limit_remaining, rate_limit_reset)
           res == get_user(r, q, h[c].username, cache, now)
           rec == Noted(h[c], q, CallInfo("user", r, res))
       IN  /\ SetRateLimit(q)
           /\ cache' = res.store
           /\ IF res.exc # NoExc
              THEN SetH(c, Failed(rec, res.exc)) /\ UNCHANGED memo
              ELSE /\ SetH(c, [rec EXCEPT !.user = res.ret, !.pc = "repos"])
                   /\ memo' = memo_put(memo, <<"user", h[c].username>>, res.ret, now)
    /\ UNCHANGED <<now, last, ncalls>>
    /\ UNCHANGED pa

\* get_repos up to its first request.
ReposCall(c) ==
    /\ h[c].pc = "repos"
    /\ LET g == cache_get(cache, make_key(<<"repos", lower(h[c].username)>>), now)
       IN  /\ cache' = g.store
           /\ IF repos_hit(g.value)
              THEN SetH(c, [h[c] EXCEPT !.repos = g.value, !.pc = "orgs",
                                        !.lastcall = HitInfo("repos", g.value), !.evicted = {}])
              ELSE SetH(c, [h[c] EXCEPT !.repos = List(<<>>), !.page = 1,
                                        !.pc = "repos_wait", !.nreq = @ + 1,
                                        !.lastcall = NoCall,
                                        !.evicted = DOMAIN cache \ DOMAIN g.store])
    /\ UNCHANGED <<now, last, rate_limit_remaining, rate_limit_reset, ncalls, memo>>
    /\ UNCHANGED pa

\* get_repos from the response to a page on.
ReposResponse(c, r) ==
    /\ h[c].pc = "repos_wait"
    /\ LET q == request(r, now, rate_limit_remaining, rate_limit_reset)
           res == get_repos(r, q, h[c].username, h[c].repos.v, h[c].page, cache, now)
           rec == Noted(h[c], q, CallInfo("repos", r, res))
       IN  /\ SetRateLimit(q)
           /\ cache' = res.store
           /\ IF res.exc # NoExc
              THEN SetH(c, Failed(rec, res.exc)) /\ UNCHANGED memo
              ELSE IF res.more
              THEN /\ SetH(c, [rec EXCEPT !.repos = res.ret, !.page = @ + 1, !.nreq = @ + 1])
                   /\ UNCHANGED memo
              ELSE /\ SetH(c, [rec EXCEPT !.repos = res.ret, !.page = 0, !.pc = "orgs"])
                   /\ memo' = memo_put(memo, <<"repos", h[c].username>>, res.ret, now)
    /\ UNCHANGED <<now, last, ncalls>>
    /\ UNCHANGED pa

\* get_orgs up to its request.
OrgsCall(c) ==
    /\ h[c].pc = "orgs"
    /\ LET g == cache_get(cache, make_key(<<"orgs", lower(h[c].username)>>), now)
       IN  /\ cache' = g.store
           /\ IF orgs_hit(g.value)
              THEN SetH(c, [h[c] EXCEPT !.orgs = g.value, !.pc = "events",
                                        !.lastcall = HitInfo("orgs", g.value), !.evicted = {}])
              ELSE SetH(c, [h[c] EXCEPT !.pc = "orgs_wait", !.nreq = @ + 1,
                                        !.lastcall = NoCall,
                                        !.evicted = DOMAIN cache \ DOMAIN g.store])
    /\ UNCHANGED <<now, last, rate_limit_remaining, rate_limit_reset, ncalls, memo>>
    /\ UNCHANGED pa

\* get_orgs from the response on.
OrgsResponse(c, r) ==
    /\ h[c].pc = "orgs_wait"
    /\ LET q == request(r, now, rate_limit_remaining, rate_limit_reset)
           res == get_orgs(r, q, h[c].username, cache, now)
           rec == Noted(h[c], q, CallInfo("orgs", r, res))
       IN  /\ SetRateLimit(q)
           /\ cache' = res.store
           /\ IF res.exc # NoExc
              THEN SetH(c, Failed(rec, res.exc)) /\ UNCHANGED memo
              ELSE /\ SetH(c, [rec EXCEPT !.orgs = res.ret, !.pc = "events"])
                   /\ memo' = memo_put(memo, <<"orgs", h[c].username>>, res.ret, now)
    /\ UNCHANGED <<now, last, ncalls>>
    /\ UNCHANGED pa

\* get_contribution_stats: get_events up to its first request.
EventsCall(c) ==
    /\ h[c].pc = "events"
    /\ LET g == cache_get(cache, make_key(<<"events", lower(h[c].username)>>), now)
       IN  /\ cache' = g.store
           /\ IF events_hit(g.value)
              THEN SetH(c, [h[c] EXCEPT !.events = g.value, !.pc = "langs",
                                        !.lastcall = HitInfo("events", g.value), !.evicted = {}])
              ELSE SetH(c, [h[c] EXCEPT !.events = List(<<>>), !.page = 1,
                                        !.pc = "events_wait", !.nreq = @ + 1,
                                        !.lastcall = NoCall,
                                        !.evicted = DOMAIN cache \ DOMAIN g.store])
    /\ UNCHANGED <<now, last, rate_limit_remaining, rate_limit_reset, ncalls, memo>>
    /\ UNCHANGED pa

\* get_events from the response to a page on.
EventsResponse(c, r) ==
    /\ h[c].pc = "events_wait"
    /\ LET q == request(r, now, rate_limit_remaining, rate_limit_reset)
           res == get_events(r, q, h[c].username, h[c].events.v, h[c].page, cache, now)
           rec == Noted(h[c], q, CallInfo("events", r, res))
       IN  /\ SetRateLimit(q)
           /\ cache' = res.store
           /\ IF res.exc # NoExc
              THEN SetH(c, Failed(rec, res.exc)) /\ UNCHANGED memo
              ELSE IF res.more
              THEN /\ SetH(c, [rec EXCEPT !.events = res.ret, !.page = @ + 1, !.nreq = @ + 1])
                   /\ UNCHANGED memo
              ELSE /\ SetH(c, [rec EXCEPT !.events = res.ret, !.page = 0, !.pc = "langs"])
                   /\ memo' = memo_put(memo, <<"events", h[c].username>>, res.ret, now)
    /\ UNCHANGED <<now, last, ncalls>>
    /\ UNCHANGED pa

Min(a, b) == IF a < b THEN a ELSE b

\* repo_names = repos[:20]; get_multiple_repo_languages starts its tasks.
LanguagesCall(c) ==
    /\ h[c].pc = "langs"
    /\ LET repo_names == SubSeq(h[c].repos.v, 1, Min(max_language_repos, Len(h[c].repos.v)))
           d == start_lookups(h[c].username, repo_names, cache, now)
           sent == Cardinality({i \in 1..Len(d.tasks) : d.tasks[i].state = "inflight"})
       IN  /\ cache' = d.store
           /\ SetH(c, [h[c] EXCEPT !.tasks = d.tasks, !.pc = "langs_wait", !.nreq = @ + sent,
                               !.lastcall = NoCall,
                               !.evicted = DOMAIN cache \ DOMAIN d.store])
    /\ UNCHANGED <<now, last, rate_limit_remaining, rate_limit_reset, ncalls, memo>>
    /\ UNCHANGED pa

\* get_repo_languages of the task i from the response on.
LanguagesResponse(c, i, r) ==
    /\ h[c].pc = "langs_wait"
    /\ i \in 1..Len(h[c].tasks)
    /\ h[c].tasks[i].state = "inflight"
    /\ LET q == request(r, now, rate_limit_remaining, rate_limit_reset)
           name == h[c].tasks[i].name
           res == get_repo_languages(r, q, h[c].username, name, cache, now)
           rec == Noted(h[c], q, CallInfo("languages", r, res))
           task == [name |-> name,
                    state |-> IF res.exc # NoExc THEN "exc" ELSE "ok",
                    ret |-> res.ret, exc |-> res.exc]
       IN  /\ SetRateLimit(q)
           /\ cache' = res.store
           /\ SetH(c, [rec EXCEPT !.tasks[i] = task])
           /\ IF res.exc # NoExc THEN UNCHANGED memo
              ELSE memo' = memo_put(memo, <<"languages", h[c].username, name>>, res.ret, now)
    /\ UNCHANGED <<now, last, ncalls>>
    /\ UNCHANGED pa

\* A gather that returns at the first lookup that raised.
LanguagesGatherFirstException(c) ==
    /\ h[c].pc = "langs_wait"
    /\ \/ \A i \in 1..Len(h[c].tasks) : h[c].tasks[i].state # "inflight"
       \/ \E i \in 1..Len(h[c].tasks) : h[c].tasks[i].state = "exc"
    /\ LET res == get_multiple_repo_languages(h[c].tasks)
       IN  IF res.exc # NoExc
           THEN SetH(c, Failed(h[c], res.exc))
           ELSE SetH(c, [h[c] EXCEPT !.repo_languages = res.ret, !.pc = "analysis"])
    /\ UNCHANGED <<now, cache, last, rate_limit_remaining, rate_limit_reset, ncalls, memo>>
    /\ UNCHANGED pa

\* asyncio.gather returns: get_multiple_repo_languages builds its result.
LanguagesGather(c) ==
    /\ h[c].pc = "langs_wait"
    /\ \A i \in 1..Len(h[c].tasks) : h[c].tasks[i].state # "inflight"
    /\ LET res == get_multiple_repo_languages(h[c].tasks)
       IN  IF res.exc # NoExc
           THEN SetH(c, Failed(h[c], res.exc))
           ELSE SetH(c, [h[c] EXCEPT !.repo_languages = res.ret, !.pc = "analysis"])
    /\ UNCHANGED <<now, cache, last, rate_limit_remaining, rate_limit_reset, ncalls, memo>>
    /\ UNCHANGED pa

\* analyzer.analyze returns the ProfileAnalysis.
Analysis(c) ==
    /\ h[c].pc = "analysis"
    /\ SetH(c, [h[c] EXCEPT !.pc = "done",
                            !.outcome = [status |-> 200, detail |-> <<>>, cause |-> ""]])
    /\ UNCHANGED <<now, cache, last, rate_limit_remaining, rate_limit_reset, ncalls, memo>>
    /\ UNCHANGED pa

\* The response of analyze_profile is sent: its locals are gone.
Respond(c) ==
    /\ h[c].pc = "done"
    /\ SetH(c, NewCall(<<>>))
    /\ UNCHANGED <<now, cache, last, rate_limit_remaining, rate_limit_reset, ncalls, memo>>
    /\ UNCHANGED pa

\* POST /cache/clear, served between the calls of analyze_profile.
ClearCache ==
    /\ cache # EmptyCache
    /\ \A c \in DOMAIN h : h[c].pc = "idle"
    /\ cache' = cache_clear(cache)
    /\ memo' = [k \in {} |-> None]
    /\ UNCHANGED <<now, last, rate_limit_remaining, rate_limit_reset, h, ncalls>>
    /\ UNCHANGED pa

ServiceInit ==
    /\ rate_limit_remaining = <<>>
    /\ rate_limit_reset = <<>>
    /\ h = [c \in Handlers |-> NewCall(<<>>)]
    /\ ncalls = 0
    /\ memo = [k \in {} |-> None]

\* --------------------------------------------- driver of the cache alone
DriverKeys == {<<"k1">>, <<"k2">>}
DriverValues == {Str(<<"a">>), List(<<>>)}
DriverTtls == {NoTtl, <<0>>, <<1>>, <<events_ttl>>}
TickSteps == {600, 1800}

\* An operation applied to the cache: for a get, value is what it returned
\* and total the number of entries before it; for stats, total and valid
\* are what it reported.
NoOp == [op |-> "none", key |-> <<>>, value |-> None, ttl |-> NoTtl,
         at |-> 0, total |-> 0, valid |-> 0]

Op(op, key, value, ttl, total, valid) ==
    [op |-> op, key |-> key, value |-> value, ttl |-> ttl,
     at |-> now, total |-> total, valid |-> valid]

CSet(key, value, ttl) ==
    /\ cache' = cache_set(cache, key, value, ttl, now)
    /\ last' = Op("set", key, value, ttl, 0, 0)
    /\ UNCHANGED <<now, svars>>
    /\ UNCHANGED pa

CGet(key) ==
    /\ cache' = cache_get(cache, key, now).store
    /\ last' = Op("get", key, cache_get(cache, key, now).value, NoTtl,
                  Cardinality(DOMAIN cache), 0)
    /\ UNCHANGED <<now, svars>>
    /\ UNCHANGED pa

CClear ==
    /\ cache' = cache_clear(cache)
    /\ last' = Op("clear", <<>>, None, NoTtl, 0, 0)
    /\ UNCHANGED <<now, svars>>
    /\ UNCHANGED pa

CStats ==
    /\ last' = Op("stats", <<>>, None, NoTtl,
                  cache_stats(cache, now).total_entries,
                  cache_stats(cache, now).valid_entries)
    /\ UNCHANGED <<now, cache, svars>>
    /\ UNCHANGED pa

\* Time passes between the calls of analyze_profile.
Tick(d) ==
    /\ now + d <= MaxClock
    /\ \A c \in DOMAIN h : h[c].pc = "idle"
    /\ now' = now + d
    /\ memo' = [k \in {id \in DOMAIN memo : now + d < memo[id].until} |-> memo[k]]
    /\ UNCHANGED <<cache, last, rate_limit_remaining, rate_limit_reset, h, ncalls>>
    /\ UNCHANGED pa

CacheInit ==
    /\ now = 0
    /\ cache = EmptyCache
    /\ last = NoOp
    /\ ServiceInit
    /\ pa = NoApply

CacheNext ==
    \/ \E k \in DriverKeys, v \in DriverValues, ttl \in DriverTtls : CSet(k, v, ttl)
    \/ \E k \in DriverKeys : CGet(k)
    \/ CClear
    \/ CStats
    \/ \E d \in TickSteps : Tick(d)

SpecCache == CacheInit /\ [][CacheNext]_vars

\* ------------------------------------------------ the service as a whole
ServiceTick == events_ttl

Init == CacheInit

Next ==
    \/ \E c \in Handlers, query \in Queries : Analyze(c, query)
    \/ \E c \in Handlers : SearchCall(c)
    \/ \E c \in Handlers, r \in Responses(now, SearchBodies) : SearchResponse(c, r)
    \/ \E c \in Handlers : UserCall(c)
    \/ \E c \in Handlers, r \in Responses(now, UserBodies) \cup MoreResponses(now) :
            UserResponse(c, r)
    \/ \E c \in Handlers : ReposCall(c)
    \/ \E c \in Handlers : \E r \in Responses(now, ReposBodies(h[c].page)) \cup {NotFound(now)} :
            ReposResponse(c, r)
    \/ \E c \in Handlers : OrgsCall(c)
    \/ \E c \in Handlers, r \in Responses(now, OrgsBodies) : OrgsResponse(c, r)
    \/ \E c \in Handlers : EventsCall(c)
    \/ \E c \in Handlers : \E r \in Responses(now, EventsBodies(h[c].page)) : EventsResponse(c, r)
    \/ \E c \in Handlers : LanguagesCall(c)
    \/ \E c \in Handlers, i \in 1..MaxRepos, r \in Responses(now, LanguagesBodies) :
            LanguagesResponse(c, i, r)
    \/ \E c \in Handlers : LanguagesGather(c)
    \/ \E c \in Handlers : Analysis(c)
    \/ \E c \in Handlers : Respond(c)
    \/ ClearCache
    \/ Tick(ServiceTick)

Spec == Init /\ [][Next]_vars

\* ------------------------------------------ resolve_username on its own
\* Queries of the three kinds, with and without surrounding blanks; the
\* fifth matches the URL pattern and contains "@".
ResolveQueries ==
    {<<"u">>,
     <<" ", "u", " ">>,
     <<"https://", "github.com/", "u">>,
     <<" ", "http://", "www.", "github.com/", "U", "-", "1", "/", "r", " ">>,
     <<"github.com/", "u", "@", "x">>,
     <<"github.com/">>,
     <<"e", "@", "x">>,
     <<" ", "e", "@", "x">>}

\* resolve_username has returned or raised: the caller has its answer.
ResolveReturn(c) ==
    /\ h[c].pc \in {"user", "done"}
    /\ SetH(c, NewCall(<<>>))
    /\ UNCHANGED <<now, cache, last, rate_limit_remaining, rate_limit_reset, ncalls, memo>>
    /\ UNCHANGED pa

ResolveNext ==
    \/ \E c \in Handlers, query \in ResolveQueries : Analyze(c, query)
    \/ \E c \in Handlers : SearchCall(c)
    \/ \E c \in Handlers, r \in Responses(now, SearchBodies) : SearchResponse(c, r)
    \/ \E c \in Handlers : ResolveReturn(c)
    \/ ClearCache
    \/ Tick(ServiceTick)

SpecResolve == Init /\ [][ResolveNext]_vars

\* ------------------------------------- the fetches of one dataset build
\* The source has data for the pages 1..FetchPages of the repository listing
\* and of the event feed: page p of the listing holds the repository
\* RepoName(p), page p of the feed an event of type EventName(p).
FetchPages == 6

EventNames ==
    <<"PushEvent", "PullRequestEvent", "IssuesEvent", "WatchEvent", "ForkEvent",
      "CreateEvent", "DeleteEvent", "ReleaseEvent">>

EventName(p) == EventNames[p]

FetchReposBodies(page) ==
    {List(<<>>)} \cup (IF page \in 1..FetchPages THEN {List(<<RepoName(page)>>)} ELSE {})

FetchEventsBodies(page) ==
    {List(<<>>)} \cup (IF page \in 1..FetchPages THEN {List(<<EventName(page)>>)} ELSE {})

\* get_contribution_stats has returned, or a fetch has raised: the dataset
\* build is over before the language lookups.
FetchReturn(c) ==
    /\ h[c].pc \in {"langs", "done"}
    /\ SetH(c, NewCall(<<>>))
    /\ UNCHANGED <<now, cache, last, rate_limit_remaining, rate_limit_reset, ncalls, memo>>
    /\ UNCHANGED pa

FetchNext ==
    \/ \E c \in Handlers : Analyze(c, <<"u">>)
    \/ \E c \in Handlers : UserCall(c)
    \/ \E c \in Handlers, r \in Responses(now, UserBodies) : UserResponse(c, r)
    \/ \E c \in Handlers : ReposCall(c)
    \/ \E c \in Handlers : \E r \in Responses(now, FetchReposBodies(h[c].page)) :
            ReposResponse(c, r)
    \/ \E c \in Handlers : OrgsCall(c)
    \/ \E c \in Handlers, r \in Responses(now, OrgsBodies) : OrgsResponse(c, r)
    \/ \E c \in Handlers : EventsCall(c)
    \/ \E c \in Handlers : \E r \in Responses(now, FetchEventsBodies(h[c].page)) :
            EventsResponse(c, r)
    \/ \E c \in Handlers : FetchReturn(c)
    \/ ClearCache
    \/ Tick(ServiceTick)

SpecFetch == Init /\ [][FetchNext]_vars

\* ------------------------------------------------------- ProfileAnalyzer
\* The floats of the analyzer are fixed-point integers: account_age_years,
\* percentage, consistency_score, tech_diversity_score and overall_score in
\* tenths, follower_ratio in hundredths, the sub-scores of the overall
\* score in thousandths.  round() is the rounding to the nearest unit, a
\* value exactly halfway going to the even neighbour.
RoundDiv(a, b) ==
    LET q == a \div b
        r == a % b
    IN  IF 2 * r < b THEN q
        ELSE IF 2 * r > b THEN q + 1
        ELSE IF q % 2 = 0 THEN q ELSE q + 1

Max(a, b) == IF a >= b THEN a ELSE b

RECURSIVE SumOf(_, _)
\* sum(f(x) for x in s), f given as the name of a field.
SumOf(s, field) ==
    IF s = <<>> THEN 0 ELSE Head(s)[field] + SumOf(Tail(s), field)

\* s[:n]
Take(s, n) == SubSeq(s, 1, Min(n, Len(s)))

\* sorted(s, key=lambda x: x[field], reverse=True): descending and stable.
RECURSIVE InsertDesc(_, _, _)
InsertDesc(sorted, x, field) ==
    IF sorted = <<>> THEN <<x>>
    ELSE IF sorted[Len(sorted)][field] >= x[field] THEN Append(sorted, x)
    ELSE Append(InsertDesc(SubSeq(sorted, 1, Len(sorted) - 1), x, field),
                sorted[Len(sorted)])

RECURSIVE SortDesc(_, _)
SortDesc(s, field) ==
    IF s = <<>> THEN <<>>
    ELSE InsertDesc(SortDesc(SubSeq(s, 1, Len(s) - 1), field), s[Len(s)], field)

\* LANGUAGE_COLORS.get(lang, "#858585")
LANGUAGE_COLORS ==
    ("Python" :> "#3572A5")
    @@ ("JavaScript" :> "#f1e05a")
    @@ ("TypeScript" :> "#2b7489")
    @@ ("Java" :> "#b07219")
    @@ ("C++" :> "#f34b7d")
    @@ ("C" :> "#555555")
    @@ ("C#" :> "#178600")
    @@ ("Go" :> "#00ADD8")
    @@ ("Rust" :> "#dea584")
    @@ ("Ruby" :> "#701516")
    @@ ("PHP" :> "#4F5D95")
    @@ ("Swift" :> "#ffac45")
    @@ ("Kotlin" :> "#F18E33")
    @@ ("Dart" :> "#00B4AB")
    @@ ("Scala" :> "#c22d40")
    @@ ("R" :> "#198CE7")
    @@ ("Shell" :> "#89e051")
    @@ ("HTML" :> "#e34c26")
    @@ ("CSS" :> "#563d7c")
    @@ ("Vue" :> "#41b883")
    @@ ("Svelte" :> "#ff3e00")
    @@ ("Jupyter Notebook" :> "#DA5B0B")

language_color(lang) ==
    IF lang \in DOMAIN LANGUAGE_COLORS THEN LANGUAGE_COLORS[lang] ELSE "#858585"

\* ProfileAnalyzer._calculate_account_age: created_at and today are day
\* numbers; the age is in tenths of a year.
calculate_account_age(created_at, today) ==
    RoundDiv((today - created_at) * 1000, 36525)

\* total_bytes[lang] += bytes_count on the dict total_bytes, a sequence of
\* items [name, bytes] in insertion order.
RECURSIVE add_bytes(_, _, _)
add_bytes(total_bytes, lang, bytes_count) ==
    IF total_bytes = <<>> THEN <<[name |-> lang, bytes |-> bytes_count]>>
    ELSE IF Head(total_bytes).name = lang
         THEN <<[Head(total_bytes) EXCEPT !.bytes = @ + bytes_count]>> \o Tail(total_bytes)
         ELSE <<Head(total_bytes)>> \o add_bytes(Tail(total_bytes), lang, bytes_count)

RECURSIVE add_repo_bytes(_, _)
add_repo_bytes(total_bytes, langs) ==
    IF langs = <<>> THEN total_bytes
    ELSE add_repo_bytes(add_bytes(total_bytes, Head(langs).name, Head(langs).bytes),
                        Tail(langs))

\* repo_languages[repo_name] when repo_name is in repo_languages, a sequence
\* of items [name, langs]; <<>> when it is not.
RECURSIVE languages_of(_, _)
languages_of(repo_languages, repo_name) ==
    IF repo_languages = <<>> THEN <<>>
    ELSE IF Head(repo_languages).name = repo_name THEN Head(repo_languages).langs
    ELSE languages_of(Tail(repo_languages), repo_name)

RECURSIVE sum_repo_bytes(_, _, _)
sum_repo_bytes(total_bytes, repos, repo_languages) ==
    IF repos = <<>> THEN total_bytes
    ELSE sum_repo_bytes(add_repo_bytes(total_bytes,
                                       languages_of(repo_languages, Head(repos).name)),
                        Tail(repos), repo_languages)

max_languages == 10

\* _aggregate_languages with the percentage cut to one decimal, not rounded.
aggregate_languages_truncating(repos, repo_languages) ==
    LET total_bytes == sum_repo_bytes(<<>>, repos, repo_languages)
        sum == SumOf(total_bytes, "bytes")
        total == IF sum # 0 THEN sum ELSE 1
        sorted == SortDesc(total_bytes, "bytes")
        languages == [i \in 1..Len(sorted) |->
                        [name |-> sorted[i].name,
                         percentage |-> (sorted[i].bytes * 1000) \div total,
                         bytes |-> sorted[i].bytes,
                         color |-> language_color(sorted[i].name)]]
    IN  Take(languages, max_languages)

\* ProfileAnalyzer._aggregate_languages: the LanguageStat list.
aggregate_languages(repos, repo_languages) ==
    LET total_bytes == sum_repo_bytes(<<>>, repos, repo_languages)
        sum == SumOf(total_bytes, "bytes")
        total == IF sum # 0 THEN sum ELSE 1
        sorted == SortDesc(total_bytes, "bytes")
        languages == [i \in 1..Len(sorted) |->
                        [name |-> sorted[i].name,
                         percentage |-> RoundDiv(sorted[i].bytes * 1000, total),
                         bytes |-> sorted[i].bytes,
                         color |-> language_color(sorted[i].name)]]
    IN  Take(languages, max_languages)

max_top_repos == 5

\* ProfileAnalyzer._get_top_repos: the RepoHighlight list.
get_top_repos(repos) ==
    LET sorted_repos == Take(SortDesc(repos, "stargazers_count"), max_top_repos)
    IN  [i \in 1..Len(sorted_repos) |->
            [name |-> sorted_repos[i].name,
             stars |-> sorted_repos[i].stargazers_count,
             forks |-> sorted_repos[i].forks_count,
             language |-> sorted_repos[i].language]]

\* Counter(s): the items [value, count] in the order of first occurrence.
RECURSIVE counter_add(_, _)
counter_add(counts, x) ==
    IF counts = <<>> THEN <<[value |-> x, count |-> 1]>>
    ELSE IF Head(counts).value = x
         THEN <<[Head(counts) EXCEPT !.count = @ + 1]>> \o Tail(counts)
         ELSE <<Head(counts)>> \o counter_add(Tail(counts), x)

RECURSIVE Counter(_)
Counter(s) ==
    IF s = <<>> THEN <<>>
    ELSE counter_add(Counter(SubSeq(s, 1, Len(s) - 1)), s[Len(s)])

\* Counter(s).most_common(1)[0][0] if Counter(s) else default
most_common(s, default) ==
    IF s = <<>> THEN default ELSE SortDesc(Counter(s), "count")[1].value

\* ProfileAnalyzer._analyze_activity: the ActivityPattern.
analyze_activity(contribution_stats) ==
    LET total_commits == contribution_stats.total_push_events
        consistency == Min(1000, RoundDiv(total_commits * 100, 3))
    IN  [most_active_day |-> most_common(contribution_stats.commit_days, "Monday"),
         most_active_hour |-> most_common(contribution_stats.commit_hours, 12),
         total_commits_last_year |-> total_commits * 4,
         longest_streak |-> 0,
         current_streak |-> 0,
         consistency_score |-> consistency]

\* ProfileAnalyzer._calculate_collaboration: the CollaborationMetrics.
calculate_collaboration(user, orgs) ==
    [public_repos |-> user.public_repos,
     public_gists |-> user.public_gists,
     followers |-> user.followers,
     following |-> user.following,
     follower_ratio |-> RoundDiv(user.followers * 100, Max(user.following, 1)),
     organizations |-> orgs]

\* sorted(s) of a set of integers.
RECURSIVE Sorted(_)
Sorted(S) ==
    IF S = {} THEN <<>>
    ELSE LET m == CHOOSE x \in S : \A y \in S : x <= y
         IN  <<m>> \o Sorted(S \ {m})

\* ProfileAnalyzer._build_growth_timeline: the GrowthTimeline list;
\* languages_used is list(set), whose order Python does not fix: a set.
build_growth_timeline(repos) ==
    LET years == Sorted({repos[i].year : i \in 1..Len(repos)})
        of(y) == SelectSeq(repos, LAMBDA r : r.year = y)
    IN  [k \in 1..Len(years) |->
            [year |-> years[k],
             repos_created |-> Len(of(years[k])),
             languages_used |-> {of(years[k])[i].language : i \in 1..Len(of(years[k]))}
                                    \ {"None"},
             stars_earned |-> SumOf(of(years[k]), "stargazers_count")]]

\* FOCUS_PATTERNS, in the order of the dict.
FOCUS_PATTERNS ==
    <<[area |-> "Web Development",
       languages |-> {"JavaScript", "TypeScript", "HTML", "CSS", "Vue", "React",
                      "Angular", "Svelte", "PHP"}],
      [area |-> "Data Science", languages |-> {"Python", "R", "Jupyter Notebook"}],
      [area |-> "Mobile Development", languages |-> {"Swift", "Kotlin", "Dart", "Java"}],
      [area |-> "Systems Programming", languages |-> {"C", "C++", "Rust", "Go"}],
      [area |-> "DevOps", languages |-> {"Shell", "Python", "Go", "Dockerfile"}],
      [area |-> "Backend Development",
       languages |-> {"Java", "Python", "Go", "Ruby", "PHP", "C#"}],
      [area |-> "Game Development", languages |-> {"C++", "C#", "GDScript"}]>>

max_focus_languages == 5
max_focus_areas == 3

\* ProfileAnalyzer._detect_focus_areas
detect_focus_areas(languages) ==
    LET top == Take(languages, max_focus_languages)
        lang_names == {top[i].name : i \in 1..Len(top)}
        matching == SelectSeq(FOCUS_PATTERNS, LAMBDA p : lang_names \cap p.languages # {})
    IN  Take([i \in 1..Len(matching) |-> matching[i].area], max_focus_areas)

\* The five sub-scores of _calculate_overall_score, in thousandths.
\* repo_score counting one repository more than the listing holds.
repo_score_one_more(repos) == Min(25000, (Len(repos) + 1) * 1500)

repo_score(repos) == Min(25000, Len(repos) * 1500)

star_score(repos) == Min(25000, SumOf(repos, "stargazers_count") * 500)

diversity_score(languages) == Min(15000, Len(languages) * 2000)

activity_score(activity) == Min(20000, activity.consistency_score * 20)

\* engagement_score without the cap of 15.
engagement_score_uncapped(collaboration) ==
    collaboration.followers * 100 + Len(collaboration.organizations) * 2000

engagement_score(collaboration) ==
    Min(15000, collaboration.followers * 100 + Len(collaboration.organizations) * 2000)

\* ProfileAnalyzer._calculate_overall_score, in tenths.
calculate_overall_score(user, repos, languages, activity, collaboration) ==
    LET scores == <<repo_score(repos), star_score(repos), diversity_score(languages),
                    activity_score(activity), engagement_score(collaboration)>>
    IN  RoundDiv(scores[1] + scores[2] + scores[3] + scores[4] + scores[5], 100)

\* _determine_experience_level with the Senior test ahead of the Expert test.
determine_experience_level_senior_first(account_age, repos, score) ==
    IF score >= 500 \/ (account_age >= 30 /\ Len(repos) >= 15) THEN "Senior"
    ELSE IF score >= 700 \/ (account_age >= 50 /\ Len(repos) >= 30) THEN "Expert"
    ELSE IF score >= 300 \/ (account_age >= 10 /\ Len(repos) >= 5) THEN "Mid-Level"
    ELSE "Junior"

\* ProfileAnalyzer._determine_experience_level; account_age and score in tenths.
determine_experience_level(account_age, repos, score) ==
    IF score >= 700 \/ (account_age >= 50 /\ Len(repos) >= 30) THEN "Expert"
    ELSE IF score >= 500 \/ (account_age >= 30 /\ Len(repos) >= 15) THEN "Senior"
    ELSE IF score >= 300 \/ (account_age >= 10 /\ Len(repos) >= 5) THEN "Mid-Level"
    ELSE "Junior"

\* str.lower() of an experience level.
level_lower(level) ==
    CASE level = "Expert" -> "expert"
      [] level = "Senior" -> "senior"
      [] level = "Mid-Level" -> "mid-level"
      [] level = "Junior" -> "junior"

\* ', '.join(s), as a sequence of pieces of text.
RECURSIVE join_comma(_)
join_comma(s) ==
    IF s = <<>> THEN <<>>
    ELSE IF Len(s) = 1 THEN s
    ELSE <<Head(s), ", ">> \o join_comma(Tail(s))

\* The label of _generate_summary with `<=` for `<` in the morning test.
time_of_day_label_noon_morning(most_active_hour) ==
    IF most_active_hour <= 12 THEN <<" ", "(morning coder)">>
    ELSE IF most_active_hour < 18 THEN <<" ", "(afternoon coder)">>
    ELSE <<" ", "(evening coder)">>

\* The time-of-day label appended by _generate_summary: a blank, then the
\* label in its parentheses.
time_of_day_label(most_active_hour) ==
    IF most_active_hour < 12 THEN <<" ", "(morning coder)">>
    ELSE IF most_active_hour < 18 THEN <<" ", "(afternoon coder)">>
    ELSE <<" ", "(evening coder)">>

\* ProfileAnalyzer._generate_summary: "".join(parts) as the sequence of the
\* pieces of text joined; a name and a fixed text are one piece each, a
\* number is its digits.
generate_summary(user, languages, repos, activity, collaboration, experience_level, focus_areas, account_age) ==
    LET name == IF user.name # "None" /\ user.name # "" THEN user.name ELSE user.login
        total_stars == SumOf(repos, "stargazers_count")
        top_langs == Take(languages, 3)
        intro == <<name, " is a ", level_lower(experience_level), "-level developer">>
        years == IF account_age >= 10
                 THEN <<"with ">> \o Digits(RoundDiv(account_age, 10))
                          \o <<"+ years on GitHub">>
                 ELSE <<>>
        focus == IF focus_areas # <<>>
                 THEN <<", focusing on ">> \o join_comma(Take(focus_areas, 2))
                 ELSE <<>>
        skills == IF languages # <<>>
                  THEN <<"Primary expertise in ">>
                           \o join_comma([i \in 1..Len(top_langs) |-> top_langs[i].name])
                           \o <<". ">>
                  ELSE <<>>
        achievements == IF total_stars > 0
                        THEN <<"Has earned ">> \o Digits(total_stars)
                                 \o <<" stars across ">> \o Digits(Len(repos))
                                 \o <<" public repositories. ">>
                        ELSE <<>>
        community == IF collaboration.followers >= 10
                     THEN <<"Active community member with ">>
                              \o Digits(collaboration.followers) \o <<" followers">>
                              \o (IF collaboration.organizations # <<>>
                                  THEN <<" and contributions to ">>
                                           \o Digits(Len(collaboration.organizations))
                                           \o <<" organizations">>
                                  ELSE <<>>)
                              \o <<". ">>
                     ELSE <<>>
        pattern == <<"Most active on ", activity.most_active_day, "s">>
                       \o time_of_day_label(activity.most_active_hour) \o <<".">>
    IN  intro \o years \o focus \o <<". ">> \o skills \o achievements
              \o community \o pattern

\* ProfileAnalyzer.analyze: the fields of the ProfileAnalysis computed from
\* the arguments (the others are copies of fields of user); today is the
\* day datetime.now gives.
analyze(user, repos, repo_languages, contribution_stats, orgs, today) ==
    LET account_age == calculate_account_age(user.created_at, today)
        languages == aggregate_languages(repos, repo_languages)
        top_repos == get_top_repos(repos)
        activity == analyze_activity(contribution_stats)
        collaboration == calculate_collaboration(user, orgs)
        growth_timeline == build_growth_timeline(repos)
        focus_areas == detect_focus_areas(languages)
        total_stars == SumOf(repos, "stargazers_count")
        total_forks == SumOf(repos, "forks_count")
        overall_score == calculate_overall_score(user, repos, languages, activity,
                                                 collaboration)
        experience_level == determine_experience_level(account_age, repos, overall_score)
        tech_diversity == Min(1000, Len(languages) * 120)
        summary == generate_summary(user, languages, repos, activity, collaboration,
                                    experience_level, focus_areas, account_age)
    IN  [username |-> user.login,
         name |-> user.name,
         account_age_years |-> account_age,
         languages |-> languages,
         primary_language |-> IF languages # <<>> THEN languages[1].name ELSE "None",
         tech_diversity_score |-> tech_diversity,
         top_repos |-> top_repos,
         total_stars |-> total_stars,
         total_forks |-> total_forks,
         activity |-> activity,
         collaboration |-> collaboration,
         growth_timeline |-> growth_timeline,
         overall_score |-> overall_score,
         experience_level |-> experience_level,
         focus_areas |-> focus_areas,
         recruiter_summary |-> summary]

\* --------------------------------------- the methods of ProfileAnalyzer
\* Each method is applied to arguments drawn from a family built from a few
\* numbers: Init draws the method and the arguments, the action of the
\* method applies it.
MaxLangs == 11

LangNames ==
    <<"Python", "JavaScript", "TypeScript", "Java", "C++", "C", "C#", "Go",
      "Rust", "Ruby", "PHP", "Swift", "Zig", "Nim", "Odin", "Vala">>

\* The repository i of a listing: its stars, and the year it was created.
Repo(i, stars) ==
    [name |-> <<"r">> \o Digits(i),
     stargazers_count |-> stars,
     forks_count |-> i % 2,
     language |-> IF i % 3 = 0 THEN "None" ELSE LangNames[1 + (i % 3)],
     year |-> 2020 + (i % 2)]

Repos(n, stars) == [i \in 1..n |-> Repo(i, stars)]

\* The byte count of language i in a LanguageByteMap of a shape.
Bytes(shape, i) ==
    CASE shape = "equal" -> 100
      [] shape = "rising" -> 10 * i
      [] shape = "skewed" -> IF i = 1 THEN 5000 ELSE 1
      [] shape = "zero" -> 0

\* The LanguageByteMaps of the first `mapped` repositories, holding k
\* languages between them: language i is in the map of repository
\* 1 + i % mapped, and the first language in every map.
ByteMap(r, mapped, k, shape) ==
    LET mine == SelectSeq([i \in 1..k |-> i], LAMBDA i : i = 1 \/ 1 + (i % mapped) = r)
    IN  [j \in 1..Len(mine) |-> [name |-> LangNames[mine[j]], bytes |-> Bytes(shape, mine[j])]]

RepoLanguages(mapped, k, shape) ==
    [r \in 1..mapped |-> [name |-> <<"r">> \o Digits(r), langs |-> ByteMap(r, mapped, k, shape)]]

\* A LanguageStat list of k languages.
Languages(k) == aggregate_languages(Repos(1, 0), RepoLanguages(1, k, "rising"))

User(name, created_at, followers, following) ==
    [login |-> "u", name |-> name, created_at |-> created_at,
     public_repos |-> 0, public_gists |-> 0,
     followers |-> followers, following |-> following]

Orgs(n) == [i \in 1..n |-> <<"o">> \o Digits(i)]

\* The contribution statistics of n push events, at the hours and on the
\* days of a pattern: the first event at hour first, the others at hour rest.
ContributionStats(n, first, rest) ==
    [total_push_events |-> n,
     commit_hours |-> [i \in 1..n |-> IF i = 1 THEN first ELSE rest],
     commit_days |-> [i \in 1..n |->
                        <<"Monday", "Tuesday", "Wednesday", "Thursday", "Friday",
                          "Saturday", "Sunday">>[1 + (i % 7)]]]

Activity(hour, consistency) ==
    [most_active_day |-> "Monday", most_active_hour |-> hour,
     total_commits_last_year |-> 0, longest_streak |-> 0, current_streak |-> 0,
     consistency_score |-> consistency]

Today == 20000


AggregateArgs ==
    {[repos |-> Repos(n, 0), repo_languages |-> RepoLanguages(mapped, k, shape)] :
        n \in 0..3, mapped \in 1..2, k \in 0..MaxLangs,
        shape \in {"equal", "rising", "skewed", "zero"}}

ScoreArgs ==
    {[user |-> User("None", 0, f, 0), repos |-> Repos(n, stars), languages |-> Languages(k),
      activity |-> Activity(12, c), collaboration |-> calculate_collaboration(User("None", 0, f, 0), Orgs(o))] :
        n \in {0, 1, 16, 17, 30}, stars \in 0..2, k \in {0, 7, 8, 10},
        c \in {0, 33, 1000}, f \in {0, 9, 10, 149, 150, 1000}, o \in {0, 1, 8}}

LevelArgs ==
    {[account_age |-> a, repos |-> Repos(n, 0), score |-> s] :
        a \in {0, 1, 9, 10, 29, 30, 49, 50},
        n \in {0, 1, 4, 5, 14, 15, 16, 17, 29, 30},
        s \in {0, 299, 300, 499, 500, 699, 700, 1000}}

SummaryArgs ==
    {[user |-> User(name, 0, f, 0), languages |-> Languages(k), repos |-> Repos(n, 1),
      activity |-> Activity(hour, 0),
      collaboration |-> calculate_collaboration(User(name, 0, f, 0), Orgs(o)),
      experience_level |-> "Senior", focus_areas |-> detect_focus_areas(Languages(k)),
      account_age |-> a] :
        name \in {"None", "Ada"}, f \in {0, 10}, k \in {0, 4}, n \in {0, 2},
        hour \in 0..23, o \in {0, 1}, a \in {1, 25}}

AnalyzeArgs ==
    {[user |-> User(name, Today - days, f, 1), repos |-> Repos(n, 1),
      repo_languages |-> RepoLanguages(1, k, "rising"),
      contribution_stats |-> ContributionStats(p, first, 20),
      orgs |-> Orgs(o), today |-> Today] :
        name \in {"None", "Ada"}, days \in {0, 37, 366, 1900}, f \in {0, 10},
        n \in {0, 1, 3}, k \in {0, 3}, p \in {0, 1, 2, 30}, first \in {9, 20},
        o \in {0, 1}}

Applying(fn, args) == [fn |-> fn, args |-> args, done |-> FALSE]

Applied(fn) == pa.fn = fn /\ pa.done

Returns(ret) ==
    /\ ~pa.done
    /\ pa' = [fn |-> pa.fn, args |-> pa.args, done |-> TRUE, ret |-> ret]
    /\ UNCHANGED <<now, cache, last, rate_limit_remaining, rate_limit_reset, h, ncalls, memo>>

AggregateLanguages ==
    /\ pa.fn = "_aggregate_languages"
    /\ Returns(aggregate_languages(pa.args.repos, pa.args.repo_languages))

CalculateOverallScore ==
    /\ pa.fn = "_calculate_overall_score"
    /\ Returns(calculate_overall_score(pa.args.user, pa.args.repos, pa.args.languages,
                                      pa.args.activity, pa.args.collaboration))

DetermineExperienceLevel ==
    /\ pa.fn = "_determine_experience_level"
    /\ Returns(determine_experience_level(pa.args.account_age, pa.args.repos, pa.args.score))

GenerateSummary ==
    /\ pa.fn = "_generate_summary"
    /\ Returns(generate_summary(pa.args.user, pa.args.languages, pa.args.repos,
                               pa.args.activity, pa.args.collaboration,
                               pa.args.experience_level, pa.args.focus_areas,
                               pa.args.account_age))

AnalyzeProfile ==
    /\ pa.fn = "analyze"
    /\ Returns(analyze(pa.args.user, pa.args.repos, pa.args.repo_languages,
                      pa.args.contribution_stats, pa.args.orgs, pa.args.today))

AnalyzerInit ==
    /\ now = 0
    /\ cache = EmptyCache
    /\ last = NoOp
    /\ ServiceInit
    /\ \/ \E args \in AggregateArgs : pa = Applying("_aggregate_languages", args)
       \/ \E args \in ScoreArgs : pa = Applying("_calculate_overall_score", args)
       \/ \E args \in LevelArgs : pa = Applying("_determine_experience_level", args)
       \/ \E args \in SummaryArgs : pa = Applying("_generate_summary", args)
       \/ \E args \in AnalyzeArgs : pa = Applying("analyze", args)

AnalyzerNext ==
    \/ AggregateLanguages
    \/ CalculateOverallScore
    \/ DetermineExperienceLevel
    \/ GenerateSummary
    \/ AnalyzeProfile

SpecAnalyzer == AnalyzerInit /\ [][AnalyzerNext]_vars

\* ----------------------------------- analyze_profile called once more
\* The source holds the same data throughout: the account u has the
\* repositories RepoName(1) .. RepoName(MaxRepos), one to a page of the
\* listing, and MaxEvents pages of one push event; the account x has no
\* repository and no event.  A request is answered with the data or with a
\* server error.
RepeatResponses(t, body) ==
    {Response(200, FALSE, Headers(t, 60), TRUE, body),
     Response(500, FALSE, Headers(t, 60), TRUE, None)}

UpstreamRepos(username, page) ==
    IF username = <<"u">> /\ page <= MaxRepos THEN List(<<RepoName(page)>>) ELSE List(<<>>)

UpstreamEvents(username, page) ==
    IF username = <<"u">> /\ page <= MaxEvents THEN List(<<"PushEvent">>) ELSE List(<<>>)

\* The arguments analyze_profile hands to analyzer.analyze: the fields of
\* the dataset the client's model carries, the others being those of the
\* unchanged source.
DatasetArgs(rec) ==
    [user |-> [User("Ada", Today - 366, 0, 0) EXCEPT !.login = rec.username],
     repos |-> [i \in 1..Len(rec.repos.v) |-> [Repo(i, 1) EXCEPT !.name = rec.repos.v[i]]],
     repo_languages |->
        [i \in 1..Len(rec.repo_languages) |->
            [name |-> rec.repo_languages[i].name,
             langs |-> [j \in 1..Len(rec.repo_languages[i].langs.v) |->
                          [name |-> rec.repo_languages[i].langs.v[j], bytes |-> 100]]]],
     contribution_stats |->
        ContributionStats(Len(SelectSeq(rec.events.v, LAMBDA e : e = "PushEvent")), 9, 20),
     orgs |-> rec.orgs.v,
     today |-> Today]

\* analyzer.analyze returns the ProfileAnalysis of the dataset: the step
\* Analysis, with the application of analyze and its instant kept in pa.
AnalyzeDataset(c) ==
    /\ h[c].pc = "analysis"
    /\ SetH(c, [h[c] EXCEPT !.pc = "done",
                            !.outcome = [status |-> 200, detail |-> <<>>, cause |-> ""]])
    /\ LET args == DatasetArgs(h[c])
       IN  pa' = [fn |-> "analyze", args |-> args, done |-> TRUE, at |-> now,
                  ret |-> analyze(args.user, args.repos, args.repo_languages,
                                  args.contribution_stats, args.orgs, args.today)]
    /\ UNCHANGED <<now, cache, last, rate_limit_remaining, rate_limit_reset, ncalls, memo>>

RepeatNext ==
    \/ \E c \in Handlers, query \in {<<"u">>, <<"x">>} : Analyze(c, query)
    \/ \E c \in Handlers : UserCall(c)
    \/ \E c \in Handlers, r \in RepeatResponses(now, Dict(<<"login">>)) : UserResponse(c, r)
    \/ \E c \in Handlers : ReposCall(c)
    \/ \E c \in Handlers :
         \E r \in RepeatResponses(now, UpstreamRepos(h[c].username, h[c].page)) :
            ReposResponse(c, r)
    \/ \E c \in Handlers : OrgsCall(c)
    \/ \E c \in Handlers, r \in RepeatResponses(now, List(<<"o">>)) : OrgsResponse(c, r)
    \/ \E c \in Handlers : EventsCall(c)
    \/ \E c \in Handlers :
         \E r \in RepeatResponses(now, UpstreamEvents(h[c].username, h[c].page)) :
            EventsResponse(c, r)
    \/ \E c \in Handlers : LanguagesCall(c)
    \/ \E c \in Handlers, i \in 1..MaxRepos, r \in RepeatResponses(now, Dict(<<"Python">>)) :
            LanguagesResponse(c, i, r)
    \/ \E c \in Handlers : LanguagesGather(c)
    \/ \E c \in Handlers : AnalyzeDataset(c)
    \/ \E c \in Handlers : Respond(c)
    \/ \E d \in TickSteps : Tick(d)

SpecRepeat == Init /\ [][RepeatNext]_vars

\* ------------------------------- a dataset build up to the fan-out
\* The listing of the account has FetchPages pages of PageRepos
\* repositories, the feed FetchPages pages of one event.
PageRepos == 5

ListingPage(page) ==
    List([i \in 1..PageRepos |-> <<"r">> \o Digits((page - 1) * PageRepos + i)])

DispatchReposBodies(page) ==
    {List(<<>>)} \cup (IF page \in 1..FetchPages THEN {ListingPage(page)} ELSE {})

\* The lookups are in flight, or a fetch has raised: what follows issues no
\* request.
DispatchReturn(c) ==
    /\ h[c].pc \in {"langs_wait", "done"}
    /\ SetH(c, NewCall(<<>>))
    /\ UNCHANGED <<now, cache, last, rate_limit_remaining, rate_limit_reset, ncalls, memo>>
    /\ UNCHANGED pa

DispatchNext ==
    \/ \E c \in Handlers, query \in {<<"u">>, <<"e", "@", "x">>} : Analyze(c, query)
    \/ \E c \in Handlers : SearchCall(c)
    \/ \E c \in Handlers, r \in Responses(now, SearchBodies) : SearchResponse(c, r)
    \/ \E c \in Handlers : UserCall(c)
    \/ \E c \in Handlers, r \in Responses(now, UserBodies) : UserResponse(c, r)
    \/ \E c \in Handlers : ReposCall(c)
    \/ \E c \in Handlers : \E r \in Responses(now, DispatchReposBodies(h[c].page)) :
            ReposResponse(c, r)
    \/ \E c \in Handlers : OrgsCall(c)
    \/ \E c \in Handlers, r \in Responses(now, OrgsBodies) : OrgsResponse(c, r)
    \/ \E c \in Handlers : EventsCall(c)
    \/ \E c \in Handlers : \E r \in Responses(now, FetchEventsBodies(h[c].page)) :
            EventsResponse(c, r)
    \/ \E c \in Handlers : LanguagesCall(c)
    \/ \E c \in Handlers : DispatchReturn(c)
    \/ ClearCache
    \/ Tick(ServiceTick)

SpecDispatch == Init /\ [][DispatchNext]_vars

\* ------------------------------------ two analyze_profile calls at once
\* Two handlers of POST /analyze run on the one event loop and share the
\* cache.  The source answers a request with the data of the account and
\* repository the request names (handles are case-insensitive upstream), or
\* with a server error.  Account u owns r1 and r2, account x owns an r1 of
\* its own.
ConcurrentHandlers == {1, 2}

SharedUser(username) == Dict(<<"login">> \o lower(username))

SharedRepos(username, page) ==
    IF page # 1 THEN List(<<>>)
    ELSE IF lower(username) = <<"u">> THEN List(<<RepoName(1), RepoName(2)>>)
    ELSE List(<<RepoName(1)>>)

SharedOrgs(username) ==
    IF lower(username) = <<"u">> THEN List(<<"ou">>) ELSE List(<<"ox">>)

SharedEvents(username, page) ==
    IF page # 1 THEN List(<<>>)
    ELSE IF lower(username) = <<"u">> THEN List(<<"PushEvent">>)
    ELSE List(<<"IssuesEvent">>)

SharedLanguages(username, repo_name) ==
    IF lower(username) # <<"u">> THEN Dict(<<"Rust">>)
    ELSE IF lower(repo_name) = RepoName(1) THEN Dict(<<"Python">>)
    ELSE Dict(<<"Go">>)

ConcurrentInit ==
    /\ now = 0
    /\ cache = EmptyCache
    /\ last = NoOp
    /\ rate_limit_remaining = <<>>
    /\ rate_limit_reset = <<>>
    /\ h = [c \in ConcurrentHandlers |-> NewCall(<<>>)]
    /\ ncalls = 0
    /\ memo = [k \in {} |-> None]
    /\ pa = NoApply

\* A language lookup is answered with the data or with a server error, the
\* other requests with the data.
Served(t, body) == {Response(200, FALSE, Headers(t, 60), TRUE, body)}

ConcurrentNext ==
    \/ Analyze(1, <<"U">>)
    \/ \E query \in {<<"u">>, <<"x">>} : Analyze(2, query)
    \/ \E c \in ConcurrentHandlers : UserCall(c)
    \/ \E c \in ConcurrentHandlers : \E r \in Served(now, SharedUser(h[c].username)) :
            UserResponse(c, r)
    \/ \E c \in ConcurrentHandlers : ReposCall(c)
    \/ \E c \in ConcurrentHandlers : \E r \in Served(now, SharedRepos(h[c].username, h[c].page)) :
            ReposResponse(c, r)
    \/ \E c \in ConcurrentHandlers : OrgsCall(c)
    \/ \E c \in ConcurrentHandlers : \E r \in Served(now, SharedOrgs(h[c].username)) :
            OrgsResponse(c, r)
    \/ \E c \in ConcurrentHandlers : EventsCall(c)
    \/ \E c \in ConcurrentHandlers : \E r \in Served(now, SharedEvents(h[c].username, h[c].page)) :
            EventsResponse(c, r)
    \/ \E c \in ConcurrentHandlers : LanguagesCall(c)
    \/ \E c \in ConcurrentHandlers : \E i \in 1..Len(h[c].tasks) :
         \E r \in RepeatResponses(now, SharedLanguages(h[c].username, h[c].tasks[i].name)) :
            LanguagesResponse(c, i, r)
    \/ \E c \in ConcurrentHandlers : LanguagesGather(c)
    \/ \E c \in ConcurrentHandlers : Analysis(c)
    \/ \E c \in ConcurrentHandlers : Respond(c)

SpecConcurrent == ConcurrentInit /\ [][ConcurrentNext]_vars

\* =================================================================== claims

\* ------------------------------------------------------------------- C1
\* A lookup of get_multiple_repo_languages has failed when its task ended
\* with an exception.
GatherOver(c) ==
    /\ h[c].tasks # <<>>
    /\ \A i \in 1..Len(h[c].tasks) : h[c].tasks[i].state # "inflight"
    /\ h[c].pc \in {"analysis", "done"}

\* C1: when k of the n language lookups issued by
\* get_multiple_repo_languages fail, the call raises no error and returns a
\* map with exactly the n-k repository names whose lookup succeeded.
C1_PartialFailureOmitsEntries ==
    \A c \in Handlers :
        GatherOver(c) =>
            /\ h[c].error.cause # "gather"
            /\ {h[c].repo_languages[i].name : i \in 1..Len(h[c].repo_languages)}
                 = {h[c].tasks[i].name :
                        i \in {j \in 1..Len(h[c].tasks) : h[c].tasks[j].state = "ok"}}

\* ------------------------------------------------------------------- C2
\* C2: whenever a request made during analyze is rejected for rate-limiting,
\* analyze never ends with the not-found signal, whatever the reset instant.
C2_RateLimitNeverNotFound ==
    \A c \in Handlers :
        (h[c].pc = "done" /\ h[c].rate_limited) => h[c].outcome.status # 404

\* ------------------------------------------------------------------- C3
NotFoundCauses == {"account_not_found", "email_no_hit"}

\* C3: analyze ends with the not-found signal only when the account does not
\* exist or an email search yields nothing; every other failure ends as a
\* generic failure carrying the original message.
C3_NotFoundOnlyForMissingIdentity ==
    \A c \in Handlers :
        (h[c].pc = "done" /\ h[c].error # NoExc) =>
            IF h[c].error.cause \in NotFoundCauses
            THEN h[c].outcome.status = 404
            ELSE /\ h[c].outcome.status = 500
                 /\ h[c].outcome.detail = <<"Error analyzing profile: ">> \o h[c].error.msg

\* ------------------------------------------------------------------- C4
BestEffortOps == {"search_email", "orgs", "events", "languages"}

\* The result by which a best-effort operation degrades; events is the list
\* get_events had collected before the response.
Degraded(op, events) ==
    CASE op = "search_email" -> None
      [] op = "orgs" -> List(<<>>)
      [] op = "events" -> events
      [] op = "languages" -> Dict(<<>>)

\* C4 as stated: on every non-success response, a rate-limit rejection
\* included, the best-effort operations raise nothing and return their empty
\* result.
C4_BestEffortNeverFails ==
    \A c \in Handlers :
        LET lc == h[c].lastcall
        IN  (lc.op \in BestEffortOps /\ lc.src = "response" /\ ~lc.success) =>
                /\ ~lc.raised
                /\ lc.ret = Degraded(lc.op, h[c].events)

\* The position of analyze_profile while the request of op is in flight.
WaitPc(op) ==
    CASE op = "search_email" -> "search_wait"
      [] op = "orgs" -> "orgs_wait"
      [] op = "events" -> "events_wait"
      [] op = "languages" -> "langs_wait"

\* C4 amended: on a non-success response that is no rate-limit rejection and
\* whose rate-limit headers are integers, get_repo_languages returns an
\* empty map, get_orgs an empty list, get_events the events collected so far
\* and search_user_by_email not-found, and for the first three the analysis
\* goes on; on a rate-limit rejection or unparsable rate-limit headers the
\* operation raises.
C4_BestEffortDegrades ==
    [][\A c \in Handlers :
        LET lc == h'[c].lastcall
        IN  (/\ lc.op \in BestEffortOps
             /\ h[c].pc = WaitPc(lc.op)
             /\ h'[c].lastcall # h[c].lastcall
             /\ lc.src = "response"
             /\ ~lc.success) =>
                IF lc.headers_ok /\ ~lc.rate_limit
                THEN /\ ~lc.raised
                     /\ lc.ret = Degraded(lc.op, h[c].events)
                     /\ lc.op # "search_email" => h'[c].pc # "done"
                ELSE /\ lc.raised
                     /\ lc.rate_limit /\ lc.headers_ok => h'[c].rate_limited]_vars

\* get_events has returned the page it had collected when the next page came
\* back as a non-success response.
C4_Witness ==
    \E c \in Handlers :
        /\ h[c].lastcall.op = "events"
        /\ h[c].lastcall.src = "response"
        /\ ~h[c].lastcall.success
        /\ ~h[c].lastcall.raised
        /\ h[c].lastcall.ret = List(<<"PushEvent">>)
        /\ h[c].pc = "langs"

\* ------------------------------------------------------------------- C5
\* C5: a get(key) performed immediately after set(key, v, ttl=0) returns a
\* miss.
C5_ZeroTtlIsMiss ==
    [][(/\ last.op = "set"
        /\ last.ttl = <<0>>
        /\ last'.op = "get"
        /\ last'.key = last.key
        /\ last'.at = last.at) => last'.value = None]_vars

\* ------------------------------------------------------------------- C6
\* A step of the driver that is a get of the key k.
GetStep(k) ==
    /\ last'.op = "get"
    /\ last'.key = k
    /\ last' # last \/ cache' # cache

\* C6: a get at or after the entry's expiry instant returns a miss and
\* removes the entry (one entry fewer); no get returns a value whose expiry
\* instant has passed.
C6_ExpiredGetEvicts ==
    [][\A k \in DriverKeys :
        GetStep(k) =>
            IF k \in DOMAIN cache /\ now >= cache[k].expires_at
            THEN /\ last'.value = None
                 /\ k \notin DOMAIN cache'
                 /\ Cardinality(DOMAIN cache') = Cardinality(DOMAIN cache) - 1
            ELSE last'.value # None =>
                    (k \in DOMAIN cache /\ now < cache[k].expires_at)]_vars

\* A get has found its entry expired and evicted it.
C6_Witness ==
    /\ last.op = "get"
    /\ last.value = None
    /\ last.at = now
    /\ last.total = Cardinality(DOMAIN cache) + 1
    /\ last.key \notin DOMAIN cache

\* ------------------------------------------------------------------- C7
\* C7: set(key, v, ttl) stores the expiry instant now + ttl (3600 when ttl
\* is omitted), and every get strictly before that instant returns v.
C7_ExpiryIsWritePlusTtl ==
    /\ [][(last'.op = "set" /\ (last' # last \/ cache' # cache)) =>
            /\ last'.key \in DOMAIN cache'
            /\ cache'[last'.key].value = last'.value
            /\ cache'[last'.key].expires_at =
                 now + (IF last'.ttl = NoTtl THEN 3600 ELSE last'.ttl[1])]_vars
    /\ [][\A k \in DriverKeys :
            (GetStep(k) /\ k \in DOMAIN cache /\ now < cache[k].expires_at) =>
                last'.value = cache[k].value]_vars

\* ------------------------------------------------------------------- C8
\* C8: after any sequence of set, get, clear and clock advances, stats()
\* reports valid_entries <= total_entries.
C8_ValidAtMostTotal ==
    last.op = "stats" => (0 <= last.valid /\ last.valid <= last.total)

\* stats() has reported an expired entry next to a valid one.
C8_Witness ==
    /\ last.op = "stats"
    /\ last.valid = 1
    /\ last.total = 2

\* ------------------------------------------------------------------- C9
\* The position of analyze_profile at which op checks the cache, and the
\* arguments op is then called with.
CallPc(op) ==
    CASE op = "search_email" -> "search"
      [] op = "user" -> "user"
      [] op = "repos" -> "repos"
      [] op = "orgs" -> "orgs"
      [] op = "events" -> "events"
      [] OTHER -> "none"

CallArg(c, op) == IF op = "search_email" THEN h[c].extracted ELSE h[c].username

\* search_user_by_email reports not-found as None on a fetch and as the
\* cached "" afterwards: both are the same result to its caller.
SameResult(a, b) == a = b \/ (~Truthy(a) /\ ~Truthy(b) /\ {a.t, b.t} \subseteq {"None", "str"})

\* C9: once a call of an operation has completed and written its result, a
\* repeat call for the same identity in any letter case before the TTL
\* elapses issues no request and returns the same result, an empty list or
\* map included.
C9_RepeatServedFromCache ==
    [][\A c \in Handlers : \A id \in DOMAIN memo :
        (/\ h[c].pc = CallPc(id[1])
         /\ h'[c] # h[c]
         /\ lower(id[2]) = lower(CallArg(c, id[1]))
         /\ now < memo[id].until) =>
            /\ h'[c].nreq = h[c].nreq
            /\ h'[c].lastcall.src = "cache"
            /\ SameResult(h'[c].lastcall.ret, memo[id].ret)]_vars

\* ------------------------------------------------------------------ C10
\* C10: after search_user_by_email(email) has completed with no hit, a
\* repeated lookup of the same email before the TTL elapses issues no
\* request, and resolve_username fails with the ValueError naming the email.
C10_NegativeSearchCached ==
    [][\A c \in Handlers :
        LET id == <<"search_email", h[c].extracted>>
        IN  (/\ h[c].pc = "search"
             /\ h'[c] # h[c]
             /\ id \in DOMAIN memo
             /\ memo[id].ret = None
             /\ now < memo[id].until) =>
                /\ h'[c].nreq = h[c].nreq
                /\ h'[c].pc = "done"
                /\ h'[c].error.type = "ValueError"
                /\ h'[c].error.msg = <<"No GitHub user found with email: ">> \o h[c].extracted
                /\ h'[c].outcome.status = 404
                /\ h'[c].outcome.detail = h'[c].error.msg]_vars

\* A repeated lookup of an email without a hit has been answered from the
\* cache, half an hour after the first.
C10_Witness ==
    \E c \in Handlers :
        /\ h[c].pc = "done"
        /\ h[c].nreq = 0
        /\ h[c].lastcall.op = "search_email"
        /\ h[c].lastcall.src = "cache"
        /\ h[c].outcome.status = 404
        /\ now = 1800

\* ------------------------------------------------------------------ C11
\* C11: resolve_username trims the query and takes exactly one branch: a
\* query matching the profile-URL pattern gives the handle of the URL with no
\* request; otherwise a query containing "@" goes to search_user_by_email
\* and gives the found handle on a hit and the ValueError naming the email
\* on a miss; otherwise the trimmed query is returned with no request.
C11_ResolveBranches ==
    [][\A c \in Handlers :
        /\ (h[c].pc = "idle" /\ h'[c].pc # "idle") =>
              LET q == strip(h'[c].query)
              IN  IF url_match(q) # <<>>
                  THEN /\ h'[c].pc = "user"
                       /\ h'[c].username = url_match(q)
                       /\ h'[c].nreq = 0
                  ELSE IF "@" \in {q[i] : i \in 1..Len(q)}
                  THEN /\ h'[c].pc = "search"
                       /\ h'[c].extracted = q
                       /\ h'[c].nreq = 0
                  ELSE /\ h'[c].pc = "user"
                       /\ h'[c].username = q
                       /\ h'[c].nreq = 0
        /\ (h[c].pc \in {"search", "search_wait"} /\ h'[c].pc = "user") =>
              /\ h'[c].lastcall.op = "search_email"
              /\ Truthy(h'[c].lastcall.ret)
              /\ h'[c].username = h'[c].lastcall.ret.v
        /\ (h[c].pc \in {"search", "search_wait"} /\ h'[c].pc = "done"
                /\ ~h'[c].lastcall.raised) =>
              /\ ~Truthy(h'[c].lastcall.ret)
              /\ h'[c].error.type = "ValueError"
              /\ h'[c].error.msg =
                    <<"No GitHub user found with email: ">> \o h[c].extracted]_vars

\* A query that is a profile URL and contains "@" has been resolved to the
\* handle of the URL without a request.
C11_Witness ==
    \E c \in Handlers :
        /\ h[c].pc = "user"
        /\ h[c].query = <<"github.com/", "u", "@", "x">>
        /\ h[c].username = <<"u">>
        /\ h[c].nreq = 0

\* ------------------------------------------------------------------ C12
\* The first n pages of the repository listing, concatenated.
RepoPages(n) == [i \in 1..n |-> RepoName(i)]

\* C12: on a cache miss get_repos requests the pages 1, 2, 3, ... in
\* ascending order, stops at the first empty page or after page 5, never
\* requests a page above 5, and returns the concatenation of the non-empty
\* pages in request order.
C12_ReposPagination ==
    [][\A c \in Handlers :
        /\ (h[c].pc = "repos" /\ h'[c].pc = "repos_wait") =>
              /\ h'[c].page = 1
              /\ h'[c].nreq = h[c].nreq + 1
        /\ h'[c].pc = "repos_wait" =>
              /\ h'[c].page \in 1..5
              /\ h'[c].repos.v = RepoPages(h'[c].page - 1)
        /\ (h[c].pc = "repos_wait" /\ h'[c].pc = "repos_wait" /\ h'[c] # h[c]) =>
              /\ h'[c].page = h[c].page + 1
              /\ h'[c].nreq = h[c].nreq + 1
        /\ (h[c].pc = "repos_wait" /\ h'[c].pc = "orgs") =>
              /\ h'[c].nreq = h[c].nreq
              /\ h'[c].lastcall.ret = h'[c].repos
              /\ \/ h'[c].repos.v = RepoPages(h[c].page - 1)
                 \/ h[c].page = 5 /\ h'[c].repos.v = RepoPages(5)]_vars

\* get_repos has returned the five pages it is allowed to request.
C12_Witness ==
    \E c \in Handlers :
        /\ h[c].pc = "orgs"
        /\ h[c].lastcall.op = "repos"
        /\ h[c].lastcall.src = "response"
        /\ h[c].repos.v = RepoPages(5)

\* ------------------------------------------------------------------ C13
\* The first n pages of the event feed, concatenated.
EventPages(n) == [i \in 1..n |-> EventName(i)]

\* What get_events does on a step other than a non-success response: it
\* requests the pages from 1 upwards, at most 3, and stops at the first empty
\* page with the pages received so far.
EventsPagination(c) ==
    /\ (h[c].pc = "events" /\ h'[c].pc = "events_wait") =>
          /\ h'[c].page = 1
          /\ h'[c].nreq = h[c].nreq + 1
    /\ h'[c].pc = "events_wait" =>
          /\ h'[c].page \in 1..3
          /\ h'[c].events.v = EventPages(h'[c].page - 1)
    /\ (h[c].pc = "events_wait" /\ h'[c].pc = "events_wait" /\ h'[c] # h[c]) =>
          /\ h'[c].page = h[c].page + 1
          /\ h'[c].nreq = h[c].nreq + 1
    /\ (h[c].pc = "events_wait" /\ h'[c].lastcall.success /\ ~h'[c].lastcall.raised
            /\ h'[c].pc # "events_wait") =>
          /\ h'[c].pc = "langs"
          /\ h'[c].nreq = h[c].nreq
          /\ h'[c].lastcall.ret = h'[c].events
          /\ \/ h'[c].events.v = EventPages(h[c].page - 1)
             \/ h[c].page = 3 /\ h'[c].events.v = EventPages(3)

\* A step of get_events that receives a non-success response.
EventsNonSuccess(c) ==
    /\ h[c].pc = "events_wait"
    /\ h'[c] # h[c]
    /\ h'[c].lastcall.src = "response"
    /\ ~h'[c].lastcall.success

\* get_events stops with the pages received so far and raises nothing.
EventsStops(c) ==
    /\ ~h'[c].lastcall.raised
    /\ h'[c].pc = "langs"
    /\ h'[c].nreq = h[c].nreq
    /\ h'[c].events = h[c].events
    /\ h'[c].lastcall.ret = h[c].events

\* C13 as stated: on a cache miss get_events requests at most 3 pages in
\* ascending order and stops at the first empty page or the first
\* non-success response, returning the pages received before the stop; it
\* raises no error for a non-success response.
C13_EventsPagination ==
    [][\A c \in Handlers :
        /\ EventsPagination(c)
        /\ EventsNonSuccess(c) => EventsStops(c)]_vars

\* C13 amended: as C13, but it is only for a non-success response that is no
\* rate-limit rejection and whose rate-limit headers are integers that
\* get_events stops without raising; on a rate-limit rejection or unparsable
\* rate-limit headers it raises and returns nothing.
C13_EventsPaginationAmended ==
    [][\A c \in Handlers :
        /\ EventsPagination(c)
        /\ EventsNonSuccess(c) =>
              IF h'[c].lastcall.headers_ok /\ ~h'[c].lastcall.rate_limit
              THEN EventsStops(c)
              ELSE /\ h'[c].lastcall.raised
                   /\ h'[c].pc = "done"
                   /\ h'[c].outcome.status # 200]_vars

\* get_events has returned the two pages it had received when the third
\* came back as a non-success response.
C13_Witness ==
    \E c \in Handlers :
        /\ h[c].pc = "langs"
        /\ h[c].lastcall.op = "events"
        /\ h[c].lastcall.src = "response"
        /\ ~h[c].lastcall.success
        /\ ~h[c].lastcall.raised
        /\ h[c].events.v = EventPages(2)

\* ------------------------------------------------------------------ C14
\* C14: when the source answers that the account does not exist, get_user
\* has made a single request and raises, analyze ends with the not-found
\* signal, and no repository, organization, event or language request is
\* issued for that query.
C14_MissingAccountEndsNotFound ==
    [][\A c \in Handlers :
        /\ UserResponse(c, NotFound(now)) =>
              /\ h'[c].lastcall.op = "user"
              /\ h'[c].lastcall.raised
              /\ h'[c].error.type = "HTTPStatusError"
              /\ h'[c].pc = "done"
              /\ h'[c].outcome.status = 404
              /\ h'[c].outcome.detail = <<"GitHub user not found: ">> \o h[c].query
              /\ h'[c].nreq = h[c].nreq
              /\ h'[c].nreq \in (IF "@" \in {h[c].extracted[i] : i \in 1..Len(h[c].extracted)}
                                 THEN {1, 2} ELSE {1})
              /\ h'[c].repos = List(<<>>)
              /\ h'[c].orgs = None
              /\ h'[c].events = List(<<>>)
              /\ h'[c].tasks = <<>>
        /\ (h[c].pc = "done" /\ h'[c] # h[c]) => h'[c].pc = "idle"]_vars

\* analyze has ended with the not-found signal after the one request of
\* get_user was answered 404.
C14_Witness ==
    \E c \in Handlers :
        /\ h[c].pc = "done"
        /\ h[c].lastcall.op = "user"
        /\ h[c].lastcall.src = "response"
        /\ h[c].error.cause = "account_not_found"
        /\ h[c].outcome.status = 404
        /\ h[c].nreq = 1

\* ------------------------------------------------------------------ C15
\* get_rate_limit_info reports what the response r carried.
ReportsHeadersOf(r) ==
    LET info == get_rate_limit_info(rate_limit_remaining', rate_limit_reset')
    IN  r.kind = "response" =>
            /\ IsIntLiteral(r.remaining) =>
                  info.remaining = <<ParseInt(r.remaining)>>
            /\ (IsIntLiteral(r.reset) /\ ParseInt(r.reset) # 0) =>
                  info.reset_at = Str(isoformat(ParseInt(r.reset)))

\* C15: after every response received by the client, whatever its status,
\* get_rate_limit_info reports the remaining quota and the reset instant
\* carried by that response.
C15_RateLimitInfoIsLatest ==
    [][\A c \in Handlers :
        /\ \A r \in Responses(now, SearchBodies) :
              SearchResponse(c, r) => ReportsHeadersOf(r)
        /\ \A r \in Responses(now, UserBodies) \cup MoreResponses(now) :
              UserResponse(c, r) => ReportsHeadersOf(r)
        /\ \A r \in Responses(now, ReposBodies(h[c].page)) \cup {NotFound(now)} :
              ReposResponse(c, r) => ReportsHeadersOf(r)
        /\ \A r \in Responses(now, OrgsBodies) :
              OrgsResponse(c, r) => ReportsHeadersOf(r)
        /\ \A r \in Responses(now, EventsBodies(h[c].page)) :
              EventsResponse(c, r) => ReportsHeadersOf(r)
        /\ \A r \in Responses(now, LanguagesBodies) : \A i \in 1..MaxRepos :
              LanguagesResponse(c, i, r) => ReportsHeadersOf(r)]_vars

\* C16: for non-negative arguments each of the five sub-scores of
\* _calculate_overall_score lies between 0 and its cap (25, 25, 15, 20 and
\* 15, here in thousandths) and the overall score lies between 0 and 100
\* (here in tenths), in the method applied on its own and in analyze.
C16_SubScoresWithinCaps ==
    /\ Applied("_calculate_overall_score") =>
        /\ repo_score(pa.args.repos) \in 0..25000
        /\ star_score(pa.args.repos) \in 0..25000
        /\ diversity_score(pa.args.languages) \in 0..15000
        /\ activity_score(pa.args.activity) \in 0..20000
        /\ engagement_score(pa.args.collaboration) \in 0..15000
        /\ pa.ret \in 0..1000
    /\ Applied("analyze") => pa.ret.overall_score \in 0..1000

\* Every sub-score is at its cap and the uncapped engagement is above it.
C16_Witness ==
    /\ Applied("_calculate_overall_score")
    /\ Len(pa.args.repos) * 1500 > 25000
    /\ SumOf(pa.args.repos, "stargazers_count") * 500 > 25000
    /\ Len(pa.args.languages) * 2000 > 15000
    /\ pa.args.collaboration.followers * 100 > 15000
    /\ pa.args.activity.consistency_score = 1000
    /\ pa.ret = 1000

\* The languages summed by _aggregate_languages before the cut to ten.
TotalBytes(args) == sum_repo_bytes(<<>>, args.repos, args.repo_languages)

\* Every LanguageByteMap handed to _aggregate_languages is empty.
AllMapsEmpty(args) ==
    \A r \in 1..Len(args.repo_languages) : Len(args.repo_languages[r].langs) = 0

\* The percentages of the list add up to 100 within the rounding of the
\* entries: 0.05 for each entry of the list.
SumsToHundred(languages) ==
    LET sum == SumOf(languages, "percentage")
    IN  /\ 2 * (sum - 1000) <= Len(languages)
        /\ 2 * (1000 - sum) <= Len(languages)

\* C17 as stated: the percentages of the list returned by
\* _aggregate_languages add up to 100 within rounding tolerance whenever
\* the total byte count is positive, and the list is empty when every
\* language byte map is empty.
C17_PercentagesSumToHundred ==
    Applied("_aggregate_languages") =>
        /\ SumOf(TotalBytes(pa.args), "bytes") > 0 => SumsToHundred(pa.ret)
        /\ AllMapsEmpty(pa.args) => Len(pa.ret) = 0

\* C17 amended: the percentages of the list returned by
\* _aggregate_languages add up to 100 within rounding tolerance whenever
\* the total byte count is positive and the repositories hold at most ten
\* languages between them; with more languages the list is cut to the ten
\* largest and its percentages add up to at most 100 within the tolerance;
\* the list is empty when every language byte map is empty.
C17_PercentagesSumToHundredAmended ==
    Applied("_aggregate_languages") =>
        /\ (/\ SumOf(TotalBytes(pa.args), "bytes") > 0
            /\ Len(TotalBytes(pa.args)) <= max_languages) => SumsToHundred(pa.ret)
        /\ SumOf(TotalBytes(pa.args), "bytes") > 0 =>
               /\ 2 * (SumOf(pa.ret, "percentage") - 1000) <= Len(pa.ret)
               /\ Len(pa.ret) = Min(max_languages, Len(TotalBytes(pa.args)))
        /\ AllMapsEmpty(pa.args) => Len(pa.ret) = 0

\* Eleven languages of positive size: the list has ten entries and lacks
\* the share of the eleventh.
C17_Witness ==
    /\ Applied("_aggregate_languages")
    /\ Len(TotalBytes(pa.args)) > max_languages
    /\ SumOf(TotalBytes(pa.args), "bytes") > 0
    /\ Len(pa.ret) = max_languages
    /\ ~SumsToHundred(pa.ret)

\* The rank of an experience level.
TierRank(level) ==
    CASE level = "Junior" -> 0
      [] level = "Mid-Level" -> 1
      [] level = "Senior" -> 2
      [] level = "Expert" -> 3

\* C18: the experience level is the first matching tier in the order Expert
\* (score >= 70, or age >= 5 and repos >= 30), Senior (score >= 50, or
\* age >= 3 and repos >= 15), Mid-Level (score >= 30, or age >= 1 and
\* repos >= 5), else Junior; and raising the score, the age or the number of
\* repositories never lowers the tier.
C18_FirstMatchingTier ==
    Applied("_determine_experience_level") =>
        LET score == pa.args.score
            age == pa.args.account_age
            n == Len(pa.args.repos)
            expert == score >= 700 \/ (age >= 50 /\ n >= 30)
            senior == score >= 500 \/ (age >= 30 /\ n >= 15)
            mid == score >= 300 \/ (age >= 10 /\ n >= 5)
        IN  /\ pa.ret = "Expert" <=> expert
            /\ pa.ret = "Senior" <=> ~expert /\ senior
            /\ pa.ret = "Mid-Level" <=> ~expert /\ ~senior /\ mid
            /\ pa.ret = "Junior" <=> ~expert /\ ~senior /\ ~mid
            /\ \A more \in LevelArgs :
                    (/\ more.score >= score
                     /\ more.account_age >= age
                     /\ Len(more.repos) >= n)
                    => TierRank(determine_experience_level(more.account_age, more.repos,
                                                           more.score))
                           >= TierRank(pa.ret)

\* Expert by age and repositories with a score below every threshold.
C18_Witness ==
    /\ Applied("_determine_experience_level")
    /\ pa.args.score < 300
    /\ pa.args.account_age >= 50
    /\ Len(pa.args.repos) >= 30
    /\ pa.ret = "Expert"

\* analyze has returned the profile of an account with no repository, no
\* follower and an age of 0.1 years.
NewAccount ==
    /\ Applied("analyze")
    /\ Len(pa.args.repos) = 0
    /\ pa.args.user.followers = 0
    /\ pa.ret.account_age_years = 1

\* The profile the scenario of the new account expects.
JuniorWithNothing(profile) ==
    /\ profile.experience_level = "Junior"
    /\ Len(profile.languages) = 0
    /\ profile.primary_language = "None"
    /\ profile.overall_score = 0

\* C19 as stated: for an account with 0 repositories, 0 followers and age
\* 0.1 years analyze yields experience_level "Junior", an empty languages
\* list, primary_language None and overall_score 0.0.
C19_NewAccountScoresZero ==
    NewAccount => JuniorWithNothing(pa.ret)

\* C19 amended: for an account with 0 repositories, 0 followers, age 0.1
\* years, no organization and no push event analyze yields experience_level
\* "Junior", an empty languages list, primary_language None and
\* overall_score 0.0; with organizations or push events the level, the
\* languages and the primary language are the same and the score is
\* positive.
C19_NewAccountScoresZeroAmended ==
    NewAccount =>
        /\ pa.ret.experience_level = "Junior"
        /\ Len(pa.ret.languages) = 0
        /\ pa.ret.primary_language = "None"
        /\ pa.ret.overall_score = 0
               <=> /\ Len(pa.args.orgs) = 0
                   /\ pa.args.contribution_stats.total_push_events = 0

\* The new account is a member of an organization and is scored 2.0.
C19_Witness ==
    /\ NewAccount
    /\ Len(pa.args.orgs) = 1
    /\ pa.args.contribution_stats.total_push_events = 0
    /\ pa.ret.overall_score = 20
    /\ pa.ret.experience_level = "Junior"

\* The time-of-day labels among the pieces of a summary, in order.
TimeOfDayLabels(summary) ==
    SelectSeq(summary, LAMBDA piece :
        piece \in {"(morning coder)", "(afternoon coder)", "(evening coder)"})

\* C20: for every most-active hour h in 0..23 the summary contains exactly
\* one time-of-day label: "(morning coder)" when h < 12, "(afternoon coder)"
\* when 12 <= h < 18 and "(evening coder)" otherwise; the hour is the one
\* handed to _generate_summary, in analyze the one _analyze_activity found.
C20_OneTimeOfDayLabel ==
    LET expected(hh) == IF hh < 12 THEN <<"(morning coder)">>
                        ELSE IF 12 <= hh /\ hh < 18 THEN <<"(afternoon coder)">>
                        ELSE <<"(evening coder)">>
    IN  /\ Applied("_generate_summary") =>
            /\ pa.args.activity.most_active_hour \in 0..23
            /\ TimeOfDayLabels(pa.ret) = expected(pa.args.activity.most_active_hour)
        /\ Applied("analyze") =>
            /\ pa.ret.activity.most_active_hour \in 0..23
            /\ TimeOfDayLabels(pa.ret.recruiter_summary)
                   = expected(pa.ret.activity.most_active_hour)

\* The first push event was at 9 but most were at 20: an evening coder.
C20_Witness ==
    /\ Applied("analyze")
    /\ pa.args.contribution_stats.commit_hours[1] = 9
    /\ pa.ret.activity.most_active_hour = 20
    /\ TimeOfDayLabels(pa.ret.recruiter_summary) = <<"(evening coder)">>

\* ------------------------------------------------------------------ C21
\* C21: calling analyze twice for the same query within the cache TTL, with
\* the upstream data unchanged and the same evaluation instant, yields two
\* ProfileAnalysis results that are equal in every field.  The second call
\* is within the TTL when every entry written during the first is still
\* valid: less than the TTL of the events after it.
C21_RepeatedAnalysisIsEqual ==
    [][\A c \in DOMAIN h :
        (/\ AnalyzeDataset(c)
         /\ pa.fn = "analyze" /\ pa.done
         /\ pa.args.user.login = h[c].username
         /\ pa.args.today = pa'.args.today
         /\ now < pa.at + events_ttl) => pa'.ret = pa.ret]_vars

\* ------------------------------------------------------------------ C22
\* The place of a position of analyze_profile in the order of the remote
\* operations.
OpRank(pc) ==
    CASE pc \in {"search", "search_wait"} -> 0
      [] pc \in {"user", "user_wait"} -> 1
      [] pc \in {"repos", "repos_wait"} -> 2
      [] pc \in {"orgs", "orgs_wait"} -> 3
      [] pc \in {"events", "events_wait"} -> 4
      [] pc \in {"langs", "langs_wait"} -> 5
      [] pc = "analysis" -> 6
      [] pc = "done" -> 7
      [] pc = "idle" -> 8

\* C22: within one dataset build the remote operations are issued in the
\* order account, repositories, organizations, events, and the language
\* fan-out is dispatched only after all four have completed; language
\* lookups are issued for exactly the first min(20, n) repositories of the
\* listing, in listing order, and for no other repository.
C22_OperationsInOrder ==
    [][\A c \in DOMAIN h :
        LET a == h[c]
            b == h'[c]
        IN  /\ (a.pc \notin {"idle", "done"} /\ b.pc \notin {"idle", "done"}) =>
                   OpRank(b.pc) \in {OpRank(a.pc), OpRank(a.pc) + 1}
            /\ (a.pc = "idle" /\ b.pc # "idle") => b.pc \in {"search", "user"}
            /\ (b.pc = "langs_wait" /\ a.pc # "langs_wait") =>
                   /\ a.pc = "langs"
                   /\ a.user # None /\ a.orgs # None /\ a.page = 0
                   /\ Len(b.tasks) = Min(20, Len(a.repos.v))
                   /\ \A i \in 1..Len(b.tasks) : b.tasks[i].name = a.repos.v[i]
            /\ (b.tasks # a.tasks /\ b.pc # "idle") => b.pc = "langs_wait"]_vars

\* A listing of more than 20 repositories, and 20 lookups dispatched.
C22_Witness ==
    \E c \in DOMAIN h :
        /\ h[c].pc = "langs_wait"
        /\ Len(h[c].repos.v) > 20
        /\ Len(h[c].tasks) = 20
        /\ h[c].tasks[20].name = h[c].repos.v[20]

\* ------------------------------------------------------------------ C25
\* C25: no request is retried: one analyze call issues each distinct
\* request (email search; account; repository page p; organizations; event
\* page p; languages of repository r) at most once, so at most
\* 1 + 1 + 5 + 1 + 3 + 20 = 31 requests whatever the responses are.  A
\* request is issued on entering an operation, which is entered once, on
\* going to the next page, and for each repository of the fan-out once.
C25_NoRequestIsRetried ==
    [][\A c \in DOMAIN h :
        LET a == h[c]
            b == h'[c]
            sent == b.nreq - a.nreq
        IN  b.pc # "idle" =>
              /\ sent >= 0
              /\ OpRank(b.pc) >= OpRank(a.pc) \/ a.pc = "idle"
              /\ sent > 0 =>
                    \/ /\ sent = 1
                       /\ <<a.pc, b.pc>> \in {<<"search", "search_wait">>, <<"user", "user_wait">>,
                                              <<"orgs", "orgs_wait">>}
                    \/ /\ sent = 1
                       /\ <<a.pc, b.pc>> \in {<<"repos", "repos_wait">>, <<"events", "events_wait">>}
                       /\ b.page = 1
                    \/ /\ sent = 1
                       /\ a.pc = b.pc
                       /\ b.page = a.page + 1
                       /\ \/ a.pc = "repos_wait" /\ b.page <= 5
                          \/ a.pc = "events_wait" /\ b.page <= 3
                    \/ /\ <<a.pc, b.pc>> = <<"langs", "langs_wait">>
                       /\ sent <= 20
                       /\ sent = Cardinality({b.tasks[i].name : i \in
                                    {j \in 1..Len(b.tasks) : b.tasks[j].state = "inflight"}})
              /\ b.nreq <= 1 + 1 + 5 + 1 + 3 + 20]_vars

\* A call that has issued 31 requests.
C25_Witness ==
    \E c \in DOMAIN h : h[c].pc = "langs_wait" /\ h[c].nreq = 31

\* ------------------------------------------------------------------ C23
\* C23: once get_multiple_repo_languages has dispatched its batch, it
\* returns (and the orchestrator starts computing metrics) only after every
\* dispatched lookup has completed or failed, under every interleaving of
\* the in-flight lookups; a failure of one lookup never cancels or skips
\* another: a lookup leaves the in-flight state only by its own response,
\* and a step that completes or fails one lookup leaves every other lookup
\* as it was.
C23_GatherWaitsForEveryLookup ==
    [][\A c \in DOMAIN h :
        LET a == h[c]
            b == h'[c]
            T == 1..Len(a.tasks)
        IN  a.pc = "langs_wait" =>
              /\ b.pc # "langs_wait" =>
                    /\ \A i \in T : a.tasks[i].state # "inflight"
                    /\ b.pc \in {"analysis", "done"}
                    /\ b.tasks = a.tasks
              /\ b.pc = "langs_wait" =>
                    /\ Len(b.tasks) = Len(a.tasks)
                    /\ \A i \in T : a.tasks[i].state # "inflight" => b.tasks[i] = a.tasks[i]
                    /\ \A i, j \in T :
                          (b.tasks[i] # a.tasks[i] /\ b.tasks[j] # a.tasks[j]) => i = j
                    /\ \A i \in T : b.tasks[i].name = a.tasks[i].name]_vars

\* The first lookup has failed and the second has completed after it: the
\* last response handled is a success.
C23_Witness ==
    \E c \in DOMAIN h :
        /\ h[c].pc = "langs_wait"
        /\ Len(h[c].tasks) = 2
        /\ h[c].tasks[1].state = "exc"
        /\ h[c].tasks[2].state = "ok"
        /\ h[c].lastcall.op = "languages"
        /\ h[c].lastcall.src # "cache"
        /\ ~h[c].lastcall.raised

\* ------------------------------------------------------------------ C24
\* The values the operation named by a key returns, and stores, for the
\* arguments of the key.
Produced(key) ==
    IF Len(key) < 2 THEN {}
    ELSE CASE key[1] = "user" /\ Len(key) = 2 -> {SharedUser(key[2])}
           [] key[1] = "repos" /\ Len(key) = 2 -> {SharedRepos(key[2], 1)}
           [] key[1] = "orgs" /\ Len(key) = 2 -> {SharedOrgs(key[2]), List(<<>>)}
           [] key[1] = "events" /\ Len(key) = 2 -> {SharedEvents(key[2], 1), List(<<>>)}
           [] key[1] = "languages" /\ Len(key) = 3 ->
                {SharedLanguages(key[2], key[3]), Dict(<<>>)}
           [] OTHER -> {}

\* The instants up to now at which time has stood.
Instants == {t \in 0..now : t % ServiceTick = 0}

\* C24: under every interleaving of overlapping in-flight fetches (the
\* lookups of one batch, two analyze calls for the same or for different
\* handles) on the one shared cache, every stored entry is a complete
\* (value, expiry) pair written by one fetch for the entry's own key: its
\* value is one the operation of the key produces for the arguments of the
\* key (handles compared without case, as the keys are) and its expiry the
\* instant of a write plus the TTL of the operation; and what a call holds
\* from a get or a fetch is a value produced for its own operation and
\* arguments.
C24_EntriesBelongToTheirKey ==
    /\ \A key \in DOMAIN cache :
          /\ DOMAIN cache[key] = {"value", "expires_at"}
          /\ cache[key].value \in Produced(key)
          /\ \E t \in Instants : cache[key].expires_at = t + memo_ttl(key[1])
    /\ \A c \in DOMAIN h :
          LET rec == h[c]
              name == lower(rec.username)
          IN  /\ rec.user # None => rec.user \in Produced(<<"user", name>>)
              /\ rec.pc \in {"orgs", "orgs_wait", "events", "events_wait", "langs", "langs_wait",
                             "analysis"} => rec.repos \in Produced(<<"repos", name>>)
              /\ rec.orgs # None => rec.orgs \in Produced(<<"orgs", name>>)
              /\ rec.pc \in {"langs", "langs_wait", "analysis"} =>
                     rec.events \in Produced(<<"events", name>>)
              /\ \A i \in 1..Len(rec.tasks) :
                     rec.tasks[i].state = "ok" =>
                        rec.tasks[i].ret \in Produced(<<"languages", name, lower(rec.tasks[i].name)>>)

\* Two calls in flight at once, for u and for x, each holding the languages
\* of its own r1, both stored.
C24_Witness ==
    /\ h[1].pc = "langs_wait" /\ h[2].pc = "langs_wait"
    /\ h[1].username = <<"U">> /\ h[2].username = <<"x">>
    /\ h[1].tasks[1].state = "ok" /\ h[2].tasks[1].state = "ok"
    /\ h[1].tasks[1].ret # h[2].tasks[1].ret
    /\ <<"languages", <<"u">>, RepoName(1)>> \in DOMAIN cache
    /\ <<"languages", <<"x">>, RepoName(1)>> \in DOMAIN cache
    /\ Truthy(cache[<<"languages", <<"x">>, RepoName(1)>>].value)

\* ------------------------------------------------------------------ C26
\* The positions in which one operation of the client awaits a response.
OperationWaits == {"search_wait", "user_wait", "repos_wait", "orgs_wait", "events_wait"}

\* The key of the operation a call is in.
OperationKey(rec) ==
    CASE rec.pc \in {"search", "search_wait"} -> make_key(<<"search_email", rec.extracted>>)
      [] rec.pc \in {"user", "user_wait"} -> make_key(<<"user", lower(rec.username)>>)
      [] rec.pc \in {"repos", "repos_wait"} -> make_key(<<"repos", lower(rec.username)>>)
      [] rec.pc \in {"orgs", "orgs_wait"} -> make_key(<<"orgs", lower(rec.username)>>)
      [] rec.pc \in {"events", "events_wait"} -> make_key(<<"events", lower(rec.username)>>)

LookupKey(rec, i) ==
    make_key(<<"languages", lower(rec.username), lower(rec.tasks[i].name)>>)

\* This step is the end of an operation of the call c by an error raised.
Raises(c) ==
    /\ h[c].pc \in OperationWaits
    /\ h'[c].pc = "done"
    /\ h'[c].lastcall.raised

\* This step is the end of the lookup i of the call c by an error raised.
LookupRaises(c, i) ==
    /\ h[c].pc = "langs_wait"
    /\ h[c].tasks[i].state = "inflight"
    /\ h'[c].tasks[i].state = "exc"

\* C26 as stated: an operation of the client that ends by raising an error
\* leaves the cache unchanged: the cache after it is the cache before it.
C26_RaisingLeavesCacheUnchanged ==
    [][\A c \in DOMAIN h :
        /\ Raises(c) => (cache' = cache /\ h[c].evicted = {})
        /\ \A i \in 1..Len(h[c].tasks) :
              LookupRaises(c, i) => (cache' = cache /\ LookupKey(h[c], i) \notin h[c].evicted)]_vars

\* This step is the start of an operation of the call c that issues a
\* request.
Requests(c) ==
    /\ h[c].pc \in {"search", "user", "repos", "orgs", "events", "langs"}
    /\ h'[c].pc \in OperationWaits \cup {"langs_wait"}

\* C26 amended: an operation of the client that ends by raising an error
\* writes no entry: a failed get_user, a get_repos failing on a page after
\* the first, a request rejected for rate-limiting in any operation store
\* nothing, no empty or negative result either.  The only change the operation makes to the
\* cache is the one of its get: the entry of its own key, when expired, is
\* deleted before the request is issued.
C26_RaisingWritesNoEntry ==
    [][\A c \in DOMAIN h :
        /\ Raises(c) =>
              /\ cache' = cache
              /\ h[c].evicted \subseteq {OperationKey(h[c])}
              /\ h[c].evicted \cap DOMAIN cache' = {}
        /\ \A i \in 1..Len(h[c].tasks) :
              LookupRaises(c, i) =>
                 /\ cache' = cache
                 /\ LookupKey(h[c], i) \notin DOMAIN cache'
        /\ Requests(c) =>
              /\ cache' = [k \in DOMAIN cache \ h'[c].evicted |-> cache[k]]
              /\ h'[c].evicted \subseteq DOMAIN cache
              /\ \A k \in h'[c].evicted : ~(now < cache[k].expires_at)
              /\ h[c].pc # "langs" => h'[c].evicted \subseteq {OperationKey(h[c])}
              /\ h[c].pc = "langs" =>
                    h'[c].evicted \subseteq {LookupKey(h'[c], i) : i \in 1..Len(h'[c].tasks)}]_vars

\* An operation has ended by raising after its get had deleted the expired
\* entry of its key.
C26_Witness ==
    \E c \in DOMAIN h :
        /\ h[c].pc = "done"
        /\ h[c].lastcall.raised
        /\ h[c].lastcall.op # "languages"
        /\ h[c].evicted # {}
        /\ h[c].evicted \cap DOMAIN cache = {}

====
